---- MODULE Spec2Model ----
(***************************************************************************)
(* Model of the JIRA triage reasoning plane:                                *)
(*   - JIRATriageAgent (langgraph_agent.py): the four graph nodes          *)
(*     classify -> retrieve -> generate -> policy and process();          *)
(*   - EnhancedPolicyEngine (enhanced_policy_engine.py);                   *)
(*   - AzureAISearchManager.hybrid_search / _mock_search;                  *)
(*   - CosmosDBDecisionLogger (azure_cosmos.py);                           *)
(*   - KeyVaultManager.get_secret (azure_keyvault.py) and the construction *)
(*     of the module-level agent;                                          *)
(*   - the /process_ticket request handler (main.py).                      *)
(*                                                                         *)
(* Encoding of Python values:                                              *)
(*   - a confidence is a record [kind, v]: kind "num" carries the number   *)
(*     in hundredths (0.95 is 95); kinds "null" and "str" are the JSON     *)
(*     null and a JSON string; kind "missing" is an absent key;            *)
(*   - a string field that is absent from a dict is the value MISSING;     *)
(*   - a department that the classifier returned as a JSON list is the     *)
(*     value ListDept (it formats as its repr and is unhashable);          *)
(*   - an e-mail address is the sequence of its characters;                *)
(*   - durations are whole seconds; the clock counts ticks of              *)
(*     1/TicksPerSec second.                                               *)
(***************************************************************************)
EXTENDS Integers, Sequences, FiniteSets, TLC

(***************************************************************************)
(* Bounds of the model.                                                    *)
(***************************************************************************)
\* the clock stops advancing at this many ticks
MaxClock == 2
\* clock ticks per second (the real clock has 10^6)
TicksPerSec == 2
\* most results the search backend returns for one query in the model
MaxResults == 4
\* most records the store holds in StoreSpec
MaxStore == 2

(***************************************************************************)
(* Python value helpers.                                                   *)
(***************************************************************************)
MISSING == "<missing>"
ListDept == "['IT']"

Num(n) == [kind |-> "num", v |-> n]
NullConf == [kind |-> "null", v |-> 0]
StrConf == [kind |-> "str", v |-> 0]
MissingConf == [kind |-> "missing", v |-> 0]

\* dict.get(key, default)
DictGet(val, default) == IF val = MISSING THEN default ELSE val
DictGetConf(val, default) == IF val.kind = "missing" THEN default ELSE val

\* hash(x) succeeds: a list is unhashable, so using it as a dict key raises
Hashable(x) == x # ListDept

\* format(x, ".2f") succeeds only for numbers
Formattable2f(c) == c.kind = "num"

RECURSIVE SeqContains(_, _)
SeqContains(s, x) == IF s = <<>> THEN FALSE
                     ELSE IF Head(s) = x THEN TRUE ELSE SeqContains(Tail(s), x)

(***************************************************************************)
(* EnhancedPolicyEngine                                                    *)
(***************************************************************************)
\* self.confidence_threshold = 0.7
ConfidenceThreshold == 70

ExternalDomainWhitelist ==
    { <<"c","o","m","p","a","n","y",".","c","o","m">>,
      <<"i","n","t","e","r","n","a","l",".","c","o","m","p","a","n","y",".","c","o","m">>,
      <<"c","o","r","p",".","c","o","m","p","a","n","y",".","c","o","m">> }

\* one threshold for every department
DeptMinConfidenceFlat(department) == ConfidenceThreshold

\* dept_policy.get("min_confidence", self.confidence_threshold)
DeptMinConfidence(department) ==
    CASE department \in {"Legal", "Finance"} -> 85
      [] department \in {"HR", "IT"} -> 70
      [] OTHER -> ConfidenceThreshold

\* the Finance entry with requires_human_review False
DeptRequiresReviewLegalOnly(department) == department = "Legal"

\* dept_policy.get("requires_human_review", False)
DeptRequiresReview(department) == department \in {"Legal", "Finance"}

\* no department adjusts the SLA
DeptSlaMultiplierNone(department) == 100

\* dept_policy.get("sla_multiplier", 1.0), in hundredths
DeptSlaMultiplier(department) ==
    CASE department = "Legal" -> 50
      [] department = "Finance" -> 75
      [] OTHER -> 100

\* the list without its last entry
HighRiskPiiNoPassport == {"us_ssn_detected", "credit_card_detected", "crypto_detected"}

\* high_risk_pii of evaluate_ticket
HighRiskPii == {"us_ssn_detected", "credit_card_detected", "crypto_detected",
                "us_passport_detected"}

\* str.lower() on one character
LowerChar(c) ==
    CASE c = "A" -> "a" [] c = "B" -> "b" [] c = "C" -> "c" [] c = "D" -> "d"
      [] c = "E" -> "e" [] c = "F" -> "f" [] c = "G" -> "g" [] c = "H" -> "h"
      [] c = "I" -> "i" [] c = "J" -> "j" [] c = "K" -> "k" [] c = "L" -> "l"
      [] c = "M" -> "m" [] c = "N" -> "n" [] c = "O" -> "o" [] c = "P" -> "p"
      [] c = "Q" -> "q" [] c = "R" -> "r" [] c = "S" -> "s" [] c = "T" -> "t"
      [] c = "U" -> "u" [] c = "V" -> "v" [] c = "W" -> "w" [] c = "X" -> "x"
      [] c = "Y" -> "y" [] c = "Z" -> "z" [] OTHER -> c

Lower(s) == [i \in 1..Len(s) |-> LowerChar(s[i])]

\* s.endswith(suffix)
EndsWith(s, suffix) ==
    /\ Len(suffix) <= Len(s)
    /\ SubSeq(s, Len(s) - Len(suffix) + 1, Len(s)) = suffix

\* positions of "@" in the address
AtPositions(email) == {i \in 1..Len(email) : email[i] = "@"}

Min(S) == CHOOSE m \in S : \A k \in S : m <= k

\* email.split("@")[1]: the text between the first "@" and the next one
SplitAt1(email) ==
    LET first == Min(AtPositions(email))
        later == {i \in AtPositions(email) : i > first}
        stop == IF later = {} THEN Len(email) + 1 ELSE Min(later)
    IN SubSeq(email, first + 1, stop - 1)

\* EnhancedPolicyEngine._is_external_email
IsExternalEmail(email) ==
    IF email = <<>> \/ AtPositions(email) = {} THEN FALSE
    ELSE LET domain == Lower(SplitAt1(email))
         IN ~ \E allowed \in ExternalDomainWhitelist : EndsWith(domain, allowed)

\* SLATarget, in seconds
SlaCritical == 3600
SlaHigh == 14400
SlaMedium == 86400
SlaLow == 259200

\* base_sla = {...}.get(priority, SLATarget.MEDIUM)
BaseSla(priority) ==
    CASE priority = "Critical" -> SlaCritical
      [] priority = "High" -> SlaHigh
      [] priority = "Medium" -> SlaMedium
      [] priority = "Low" -> SlaLow
      [] OTHER -> SlaMedium

\* _predict_sla with the warning at half of the adjusted target
PredictSlaWarnAtHalf(priority, department, now) ==
    LET adjusted == (BaseSla(priority) * DeptSlaMultiplier(department)) \div 100
    IN [target_seconds |-> adjusted,
        warning_time |-> now + (adjusted * 50) \div 100,
        breach_time |-> now + adjusted,
        adjusted_for_department |-> DeptSlaMultiplier(department) # 100]

\* EnhancedPolicyEngine._predict_sla at time now (seconds):
\* target, warning and breach in seconds
PredictSla(priority, department, now) ==
    LET adjusted == (BaseSla(priority) * DeptSlaMultiplier(department)) \div 100
    IN [target_seconds |-> adjusted,
        warning_time |-> now + (adjusted * 75) \div 100,
        breach_time |-> now + adjusted,
        adjusted_for_department |-> DeptSlaMultiplier(department) # 100]

\* _should_auto_escalate without its third rule (lines 196-197)
ShouldAutoEscalateNoFlagRule(priority, confidence, already_flagged) ==
    \/ priority = "Critical" /\ confidence < 90
    \/ priority = "High" /\ confidence < 60

\* adjusted_sla.total_seconds() / 3600, in hundredths of an hour
TargetHours(target_seconds) == (target_seconds * 100) \div 3600

\* EnhancedPolicyEngine._should_auto_escalate
ShouldAutoEscalate(priority, confidence, already_flagged) ==
    \/ priority = "Critical" /\ confidence < 90
    \/ priority = "High" /\ confidence < 60
    \/ already_flagged /\ priority \in {"Critical", "High"}

\* evaluate_ticket raises: the department is used as a dict key (line 95) and
\* the confidence is compared with a float (line 98)
EvaluateRaises(department, confidence) ==
    ~Hashable(department) \/ confidence.kind # "num"

\* the flags evaluate_ticket appends, in the order of the rules
PolicyRuleFlags(reporter, redaction_flags, department, priority, conf) ==
    LET low == conf < DeptMinConfidence(department)
        ext == IsExternalEmail(reporter)
        pii == redaction_flags \cap HighRiskPii # {}
        dept == DeptRequiresReview(department)
        review == low \/ ext \/ pii \/ dept
    IN (IF low THEN <<"low_confidence_classification">> ELSE <<>>)
       \o (IF ext THEN <<"external_contact_detected">> ELSE <<>>)
       \o (IF pii THEN <<"high_sensitivity_pii">> ELSE <<>>)
       \o (IF dept THEN <<"department_policy_requires_review">> ELSE <<>>)
       \o (IF priority = "Critical" THEN <<"critical_priority_escalation">> ELSE <<>>)
       \o (IF ShouldAutoEscalate(priority, conf, review)
           THEN <<"auto_escalated">> ELSE <<>>)

\* requires_human_review toggled, not set, by the external and PII rules
PolicyRequiresReviewToggled(reporter, redaction_flags, department, conf) ==
    \/ conf < DeptMinConfidence(department)
    \/ IsExternalEmail(reporter) # (redaction_flags \cap HighRiskPii # {})
    \/ DeptRequiresReview(department)

\* requires_human_review without the assignment of the PII rule (line 111)
PolicyRequiresReviewNoPii(reporter, redaction_flags, department, conf) ==
    \/ conf < DeptMinConfidence(department)
    \/ IsExternalEmail(reporter)
    \/ DeptRequiresReview(department)

\* requires_human_review as evaluate_ticket accumulates it
PolicyRequiresReview(reporter, redaction_flags, department, conf) ==
    \/ conf < DeptMinConfidence(department)
    \/ IsExternalEmail(reporter)
    \/ redaction_flags \cap HighRiskPii # {}
    \/ DeptRequiresReview(department)

\* format(x, ".2f") of a number given in hundredths
Fmt2f(n) ==
    IF n < 0 THEN "-" \o ToString((-n) \div 100) \o "." \o ToString(((-n) % 100) \div 10)
                      \o ToString((-n) % 10)
    ELSE ToString(n \div 100) \o "." \o ToString((n % 100) \div 10) \o ToString(n % 10)

\* str(x) of a threshold given in hundredths: 0.85 is "0.85", 0.70 is "0.7"
FloatRepr(n) ==
    ToString(n \div 100) \o "." \o ToString((n % 100) \div 10)
        \o (IF n % 10 = 0 THEN "" ELSE ToString(n % 10))

\* escalation_reason as evaluate_ticket appends to it, in the order of the rules
EscalationReasons(reporter, redaction_flags, department, priority, conf) ==
    LET low == conf < DeptMinConfidence(department)
        ext == IsExternalEmail(reporter)
        pii == redaction_flags \cap HighRiskPii # {}
        dept == DeptRequiresReview(department)
        review == low \/ ext \/ pii \/ dept
    IN (IF low THEN << "Confidence " \o Fmt2f(conf) \o " below threshold "
                           \o FloatRepr(DeptMinConfidence(department)) >>
               ELSE <<>>)
       \o (IF ext THEN <<"External email address detected">> ELSE <<>>)
       \o (IF pii THEN <<"High-sensitivity PII detected">> ELSE <<>>)
       \o (IF dept THEN << department \o " department requires human review" >>
                   ELSE <<>>)
       \o (IF priority = "Critical" THEN <<"Critical priority ticket">> ELSE <<>>)
       \o (IF ShouldAutoEscalate(priority, conf, review)
           THEN <<"Automatic escalation triggered">> ELSE <<>>)

\* EnhancedPolicyEngine.evaluate_ticket; raised = TRUE stands for the exception.
\* sla_target is in seconds (the code returns hours = seconds / 3600); the
\* two SLA times are in seconds, as is now
EvaluateTicket(reporter, redaction_flags, department, priority, confidence, policy_flags, now) ==
    IF EvaluateRaises(department, confidence)
    THEN [raised |-> TRUE, policy_flags |-> <<>>, requires_human_review |-> FALSE,
          escalation_reason |-> <<>>, sla_target |-> 0, sla_warning_time |-> 0,
          sla_breach_time |-> 0, auto_escalate |-> FALSE]
    ELSE LET flags == policy_flags \o PolicyRuleFlags(reporter, redaction_flags,
                                        department, priority, confidence.v)
             sla_prediction == PredictSla(priority, department, now)
         IN [raised |-> FALSE,
             policy_flags |-> flags,
             requires_human_review |->
                 PolicyRequiresReview(reporter, redaction_flags, department,
                                      confidence.v),
             escalation_reason |->
                 EscalationReasons(reporter, redaction_flags, department,
                                   priority, confidence.v),
             sla_target |-> sla_prediction.target_seconds,
             sla_warning_time |-> sla_prediction.warning_time,
             sla_breach_time |-> sla_prediction.breach_time,
             auto_escalate |-> SeqContains(flags, "auto_escalated")]

\* enhanced_flags = policy_flags without the copy: the appends reach the
\* caller's list
ListsAfterEvaluateAliased(policy_flags, redaction_flags, enhanced_flags) ==
    [policy_flags |-> enhanced_flags, redaction_flags |-> redaction_flags]

\* the lists the caller passed, as the caller sees them after the call:
\* enhanced_flags = list(policy_flags) is a copy (line 91) and
\* redaction_flags is only read (line 109)
ListsAfterEvaluate(policy_flags, redaction_flags, enhanced_flags) ==
    [policy_flags |-> policy_flags, redaction_flags |-> redaction_flags]

\* the engine's tables: confidence_threshold, external_domain_whitelist and
\* department_policies, set by __init__
PolicyTables ==
    [confidence_threshold |-> ConfidenceThreshold,
     external_domain_whitelist |-> ExternalDomainWhitelist,
     department_policies |->
        [d \in {"Legal", "Finance", "HR", "IT"} |->
            [requires_human_review |-> DeptRequiresReview(d),
             min_confidence |-> DeptMinConfidence(d),
             sla_multiplier |-> DeptSlaMultiplier(d)]]]

\* the engine's tables after a call of evaluate_ticket: the method assigns
\* to no attribute of self and only reads the dicts with get
TablesAfterEvaluate(tables) == tables

(***************************************************************************)
(* AzureAISearchManager                                                    *)
(***************************************************************************)
NoDocs == <<>>

\* mock_kb of _mock_search
MockKb(department, team) ==
    CASE department = "IT" /\ team = "DBA" ->
             << [id |-> "kb-887", title |-> "Database Connection Troubleshooting"] >>
      [] department = "IT" /\ team = "Security" ->
             << [id |-> "kb-234", title |-> "Zero-Trust Network Access Policy"] >>
      [] department = "HR" /\ team = "Onboarding" ->
             << [id |-> "hr-101", title |-> "New Hire Onboarding Checklist"] >>
      [] OTHER -> NoDocs

\* s[:n]
Take(s, n) == SubSeq(s, 1, IF Len(s) < n THEN Len(s) ELSE n)

\* AzureAISearchManager._mock_search: mock_kb.get(department or "IT", {})
\* raises TypeError for an unhashable department
MockSearch(department, team, top_k) ==
    IF ~Hashable(department)
    THEN [raised |-> TRUE, results |-> NoDocs]
    ELSE [raised |-> FALSE,
          results |-> Take(MockKb(IF department = "" THEN "IT" ELSE department,
                                  IF team = "" THEN "DBA" ELSE team), top_k)]

\* the documents of the index, in the order the backend ranks them
IndexDocs ==
    << [id |-> "doc-1", title |-> "Runbook"],
       [id |-> "doc-2", title |-> "Escalation Matrix"],
       [id |-> "doc-3", title |-> "Access Policy"],
       [id |-> "doc-4", title |-> "Backup Guide"],
       [id |-> "doc-5", title |-> "Network ACLs"] >>

\* what the search backend does with one query: it is not called, it fails
\* (embed_query or search raises), or it returns its n best documents
BackendNotCalled == [kind |-> "not_called", n |-> 0]
BackendError == [kind |-> "error", n |-> 0]
BackendOutcomes ==
    {BackendError} \cup {[kind |-> "ok", n |-> k] : k \in 0..MaxResults}

\* AzureAISearchManager.hybrid_search
HybridSearch(configured, backend, department, team, top_k) ==
    IF ~configured THEN MockSearch(department, team, top_k)
    ELSE IF backend.kind = "ok"
         THEN [raised |-> FALSE, results |-> Take(Take(IndexDocs, backend.n), top_k)]
         ELSE MockSearch(department, team, top_k)

(***************************************************************************)
(* CosmosDBDecisionLogger                                                  *)
(***************************************************************************)
\* the return value None of log_decision, and a returned id
NoneId == [none |-> TRUE, id |-> ""]
SomeId(id) == [none |-> FALSE, id |-> id]

\* seconds and sub-second ticks of a clock value
Seconds(now) == now \div TicksPerSec
SubTicks(now) == now % TicksPerSec

\* datetime.isoformat(): the fraction is left out when it is zero
Isoformat(now) ==
    IF SubTicks(now) = 0 THEN <<Seconds(now)>> ELSE <<Seconds(now), SubTicks(now)>>

\* string comparison a <= b of two isoformat texts (a prefix sorts first)
IsoLeq(a, b) ==
    \/ a[1] < b[1]
    \/ a[1] = b[1] /\ (Len(a) = 1 \/ (Len(b) = 2 /\ a[2] <= b[2]))

\* f"{ticket_id}_{int(timestamp.timestamp())}"
DecisionId(ticket_id, now) == ticket_id \o "_" \o ToString(Seconds(now))

\* a ttl that leaves out the seconds of a minute
RetentionTtlInMinutes == 2555 * 24 * 60

\* 2555 * 24 * 60 * 60
RetentionTtl == 2555 * 24 * 60 * 60

\* the decision_log dict of log_decision
DecisionLog(ticket_id, issue_key, decision_data, now) ==
    [id |-> DecisionId(ticket_id, now),
     ticket_id |-> ticket_id,
     issue_key |-> issue_key,
     timestamp |-> Isoformat(now),
     department |-> decision_data.classification.department,
     team |-> decision_data.classification.team,
     classification |-> decision_data.classification,
     generated_comment |-> decision_data.generated_comment,
     citations |-> decision_data.citations,
     policy_flags |-> decision_data.policy_flags,
     confidence |-> decision_data.confidence,
     model_used |-> decision_data.model_used,
     requires_human_review |-> decision_data.requires_human_review,
     ttl |-> RetentionTtl]

\* what the Cosmos service does with one request: it serves it, it answers
\* with an HTTP error (CosmosHttpResponseError), or the request fails with
\* another exception (e.g. the connection cannot be made)
ServiceOutcomes == {"ok", "http_error", "other_error"}

\* container.create_item: ids are unique within a partition (/department);
\* a second item with the same id is refused with 409 Conflict, which is a
\* CosmosHttpResponseError
IdConflict(items, item) ==
    \E i \in 1..Len(items) :
        items[i].id = item.id /\ items[i].department = item.department

\* upsert_item in place of create_item: an item with the same id and
\* partition is replaced
CreateItemUpsert(items, item, service) ==
    IF service = "ok"
    THEN [status |-> "created",
          items |-> IF IdConflict(items, item)
                    THEN [i \in 1..Len(items) |->
                            IF items[i].id = item.id
                               /\ items[i].department = item.department
                            THEN item ELSE items[i]]
                    ELSE Append(items, item)]
    ELSE IF service = "other_error"
         THEN [status |-> "raised", items |-> items]
         ELSE [status |-> "http_error", items |-> items]

CreateItem(items, item, service) ==
    IF service = "ok" /\ ~IdConflict(items, item)
    THEN [status |-> "created", items |-> Append(items, item)]
    ELSE IF service = "other_error"
         THEN [status |-> "raised", items |-> items]
         ELSE IF service = "ok"
              THEN [status |-> "conflict", items |-> items]
              ELSE [status |-> "http_error", items |-> items]

\* CosmosDBDecisionLogger.log_decision from the create_item call on:
\* a CosmosHttpResponseError is caught and None returned
LogCreate(items, item, service) ==
    LET c == CreateItem(items, item, service)
    IN [status |-> c.status,
        items |-> c.items,
        raised |-> c.status = "raised",
        ret |-> IF c.status = "created" THEN SomeId(item.id) ELSE NoneId]

\* CosmosDBDecisionLogger.log_decision
LogDecision(configured, items, ticket_id, issue_key, decision_data, now, service) ==
    IF ~configured
    THEN [status |-> "mock", items |-> items, raised |-> FALSE, ret |-> NoneId]
    ELSE LogCreate(items, DecisionLog(ticket_id, issue_key, decision_data, now),
                   service)

(***************************************************************************)
(* JIRATriageAgent: the graph nodes                                        *)
(***************************************************************************)
\* top_k=5 of the hybrid_search call, and search_results[:3]
TopK == 5
MaxCitations == 3

\* what self.llm.invoke and json.loads give classify_node: the call raises,
\* the content is not JSON, the JSON is not an object, or it is an object
\* whose keys may be absent
ClassifierFailure(kind) ==
    [kind |-> kind, department |-> MISSING, team |-> MISSING,
     suggested_priority |-> MISSING, suggested_assignee |-> MISSING,
     confidence |-> MissingConf]

ClassifierDicts ==
    [kind : {"dict"},
     department : {"IT", "Legal", ListDept, MISSING},
     team : {"DBA", MISSING},
     suggested_priority : {"Critical", MISSING},
     suggested_assignee : {"dba-lead@company.com", MISSING},
     confidence : {Num(95), Num(150), MissingConf, NullConf, StrConf}]

ClassifierResponses ==
    {ClassifierFailure(k) : k \in {"raise", "bad_json", "not_dict"}}
        \cup ClassifierDicts

\* the messages the nodes add to the transcript: the response of the LLM, or
\* AIMessage(content=f"Classification error: ...") / f"Generation error: ..."
ClassifierMessage == "<classifier response>"
ClassificationError == "Classification error"
GeneratorMessage == "<generator response>"
GenerationError == "Generation error"

\* an except branch that reports full confidence
ClassifyFallbackConfident(state) ==
    [department |-> "General",
     team |-> "Support",
     suggested_priority |-> state.priority,
     suggested_assignee |-> "support@company.com",
     classification_confidence |-> Num(100),
     messages |-> << ClassificationError >>]

\* the except branch of classify_node
ClassifyFallback(state) ==
    [department |-> "General",
     team |-> "Support",
     suggested_priority |-> state.priority,
     suggested_assignee |-> "support@company.com",
     classification_confidence |-> Num(0),
     messages |-> << ClassificationError >>]

\* classify_node that also overwrites the ticket's priority with the
\* suggested one
ClassifyUpdateSetsPriority(state, resp) ==
    IF resp.kind # "dict" THEN ClassifyFallback(state)
    ELSE [department |-> DictGet(resp.department, "General"),
          team |-> DictGet(resp.team, "Support"),
          suggested_priority |-> DictGet(resp.suggested_priority, state.priority),
          suggested_assignee |-> DictGet(resp.suggested_assignee,
                                         "support@company.com"),
          classification_confidence |-> DictGetConf(resp.confidence, Num(50)),
          priority |-> DictGet(resp.suggested_priority, state.priority),
          messages |-> << ClassifierMessage >>]

\* JIRATriageAgent.classify_node: the update it returns
ClassifyUpdate(state, resp) ==
    IF resp.kind # "dict" THEN ClassifyFallback(state)
    ELSE [department |-> DictGet(resp.department, "General"),
          team |-> DictGet(resp.team, "Support"),
          suggested_priority |-> DictGet(resp.suggested_priority, state.priority),
          suggested_assignee |-> DictGet(resp.suggested_assignee,
                                         "support@company.com"),
          classification_confidence |-> DictGetConf(resp.confidence, Num(50)),
          messages |-> << ClassifierMessage >>]

\* f"{result.get('id', 'unknown')}: {result.get('title', 'Untitled')}"
FormatDoc(result) == result.id \o ": " \o result.title

FormatDocs(results) == [i \in 1..Len(results) |-> FormatDoc(results[i])]

\* the citation of the except branch of retrieve_node
FallbackCitation(department) ==
    department \o "-KB-001: General Support Guidelines (fallback)"

\* JIRATriageAgent.retrieve_node: the update it returns
RetrieveUpdate(state, configured, backend) ==
    LET department == state.department
        found == HybridSearch(configured, backend, department, state.team, TopK)
    IN [retrieved_docs |->
          IF found.raised THEN << FallbackCitation(department) >>
          ELSE IF found.results # NoDocs
               THEN FormatDocs(Take(found.results, MaxCitations))
               ELSE << department \o "-KB-001: General Support Guidelines",
                       department \o "-KB-002: Escalation Procedures" >>]

\* the prompt of generate_node formats the confidence with :.2f before the
\* try block: a value that is no number raises out of the node
GenerateRaises(state) == ~Formattable2f(state.classification_confidence)

\* the comment of the except branch of generate_node
TemplateComment(state) ==
    "This ticket has been received and classified as " \o state.department
        \o " - " \o state.team \o ". Assigning to " \o state.suggested_assignee
        \o " for review."

LlmComment == "<llm comment>"

\* generate_node with a template that names the default assignee
GenerateUpdateDefaultAssignee(state, llm) ==
    [generated_comment |->
        IF llm = "ok" THEN LlmComment
        ELSE "This ticket has been received and classified as " \o state.department
                 \o " - " \o state.team
                 \o ". Assigning to support@company.com for review.",
     messages |-> << IF llm = "ok" THEN GeneratorMessage ELSE GenerationError >>]

\* JIRATriageAgent.generate_node: the update it returns when it returns
GenerateUpdate(state, llm) ==
    [generated_comment |-> IF llm = "ok" THEN LlmComment ELSE TemplateComment(state),
     messages |-> << IF llm = "ok" THEN GeneratorMessage ELSE GenerationError >>]

\* policy_node with an except branch that does not force review
PolicyUpdateNoFailSafe(state, now) ==
    LET evaluation == EvaluateTicket(state.reporter, state.redaction_flags,
                                     state.department, state.suggested_priority,
                                     state.classification_confidence, <<>>, now)
    IN IF evaluation.raised
       THEN [policy_flags |-> <<"policy_evaluation_error">>,
             requires_human_review |-> state.requires_human_review]
       ELSE [policy_flags |-> evaluation.policy_flags,
             requires_human_review |-> evaluation.requires_human_review]

\* JIRATriageAgent.policy_node: the update it returns
PolicyUpdate(state, now) ==
    LET evaluation == EvaluateTicket(state.reporter, state.redaction_flags,
                                     state.department, state.suggested_priority,
                                     state.classification_confidence, <<>>, now)
    IN IF evaluation.raised
       THEN [policy_flags |-> <<"policy_evaluation_error">>,
             requires_human_review |-> TRUE]
       ELSE [policy_flags |-> evaluation.policy_flags,
             requires_human_review |-> evaluation.requires_human_review]

\* the graph merges a node's update into the state: a field of the update
\* replaces the state's, except messages, whose reducer add_messages appends
Merge(state, update) ==
    [f \in DOMAIN state |->
        IF f \notin DOMAIN update THEN state[f]
        ELSE IF f = "messages" THEN state[f] \o update[f] ELSE update[f]]

(***************************************************************************)
(* JIRATriageAgent.process                                                 *)
(***************************************************************************)
\* initial_state of process
InitialState(ticket_data) ==
    [ticket_id |-> ticket_data.ticket_id,
     issue_key |-> ticket_data.issue_key,
     summary |-> ticket_data.summary,
     description |-> ticket_data.description,
     issue_type |-> ticket_data.issue_type,
     priority |-> ticket_data.priority,
     reporter |-> ticket_data.reporter,
     redaction_flags |-> ticket_data.redaction_flags,
     department |-> "",
     team |-> "",
     suggested_priority |-> "",
     suggested_assignee |-> "",
     classification_confidence |-> Num(0),
     retrieved_docs |-> <<>>,
     generated_comment |-> "",
     policy_flags |-> <<>>,
     requires_human_review |-> FALSE,
     messages |-> <<>>]

\* result of process
ProcessResult(final_state) ==
    [ticket_id |-> final_state.ticket_id,
     issue_key |-> final_state.issue_key,
     classification |->
         [department |-> final_state.department,
          team |-> final_state.team,
          suggested_priority |-> final_state.suggested_priority,
          suggested_assignee |-> final_state.suggested_assignee,
          confidence |-> final_state.classification_confidence],
     generated_comment |-> final_state.generated_comment,
     citations |-> final_state.retrieved_docs,
     policy_flags |-> final_state.policy_flags,
     confidence |-> final_state.classification_confidence,
     model_used |-> "gpt-5-langgraph",
     requires_human_review |-> final_state.requires_human_review]

\* the edges of _build_graph
NextNode(node) ==
    CASE node = "classify" -> "retrieve"
      [] node = "retrieve" -> "generate"
      [] node = "generate" -> "policy"
      [] node = "policy" -> "done"

(***************************************************************************)
(* KeyVaultManager.get_secret and JIRATriageAgent.__init__                 *)
(***************************************************************************)
\* the environment variables __init__ reads, and the secrets of the vault
EnvNames == {"AZURE_OPENAI_ENDPOINT", "AZURE_OPENAI_API_KEY", "OPENAI_API_KEY"}
SecretNames == {"Azure-OpenAI-Endpoint", "Azure-OpenAI-API-Key", "OpenAI-API-Key"}

\* os.environ.get(name) gives None (MISSING here) for a variable that is not
\* set; a variable may be set to the empty string
EnvValues == {MISSING, "", "value"}

\* what the vault does with get_secret(name): it returns the secret's value,
\* the secret does not exist, or the request fails; the last two raise
VaultAbsent == "<absent>"
VaultError == "<error>"
VaultValues == {"value", VaultAbsent, VaultError}

\* secret_name.replace("-", "_").upper()
EnvName(secret_name) ==
    CASE secret_name = "Azure-OpenAI-Endpoint" -> "AZURE_OPENAI_ENDPOINT"
      [] secret_name = "Azure-OpenAI-API-Key" -> "AZURE_OPENAI_API_KEY"
      [] secret_name = "OpenAI-API-Key" -> "OPENAI_API_KEY"

\* the truth value of a str or None
Truthy(val) == val \notin {MISSING, ""}

\* KeyVaultManager.get_secret
GetSecret(env, kv, secret_name) ==
    IF ~kv.configured THEN env[EnvName(secret_name)]
    ELSE IF kv.secrets[secret_name] \in {VaultAbsent, VaultError}
         THEN env[EnvName(secret_name)]
         ELSE kv.secrets[secret_name]

\* os.environ.get(name) or keyvault.get_secret(secret_name)
EnvOrSecret(env, kv, name, secret_name) ==
    IF Truthy(env[name]) THEN env[name] ELSE GetSecret(env, kv, secret_name)

\* JIRATriageAgent.__init__: the client it builds, or "failed" for the
\* ValueError of its else branch
ConstructAgent(env, kv) ==
    LET azure_endpoint == EnvOrSecret(env, kv, "AZURE_OPENAI_ENDPOINT",
                                      "Azure-OpenAI-Endpoint")
        azure_api_key == EnvOrSecret(env, kv, "AZURE_OPENAI_API_KEY",
                                     "Azure-OpenAI-API-Key")
        openai_api_key == env["OPENAI_API_KEY"]
    IN IF Truthy(azure_endpoint) /\ Truthy(azure_api_key) THEN "azure"
       ELSE IF Truthy(openai_api_key) THEN "openai"
            ELSE "failed"

(***************************************************************************)
(* State                                                                   *)
(***************************************************************************)
VARIABLES
    state,            \* the TicketState of the run
    pc,               \* the node the run is at; "done" is the graph's END,
                      \* "returned" and "aborted" are the ends of process
    executed,         \* the nodes entered so far, in order
    result,           \* <<r>> once process has returned r
    llmClassify,      \* what the classifier gave classify_node
    searchBackend,    \* what the search backend did for retrieve_node
    llmGenerate,      \* what the generator did for generate_node
    policyRaised,     \* evaluate_ticket raised inside policy_node
    logStatus,        \* how the log_decision call of process ended
    logCalls,         \* how many times process called log_decision
    itemsBefore,      \* the items of the container when process called log_decision
    searchConfigured, \* search_manager.configured
    cosmosConfigured, \* decision_logger.configured
    items,            \* the items of the DecisionLogs container, oldest first
    clock,            \* datetime.utcnow(), in ticks
    appended,         \* the records log_decision returned an id for, in order
    pending,          \* per caller: the decision_log built, not yet created
    lastLog,          \* the log_decision call that has just returned
    lastGet,          \* the get_decision_by_ticket call that has just returned
    lastQuery,        \* the query_decisions call that has just returned
    firstCall,        \* an earlier call of policy_engine.evaluate_ticket
    secondCall,       \* a later call of evaluate_ticket on the same engine
    engineTables,     \* the policy tables of the policy_engine object
    environ,          \* os.environ: the credentials the process was started with
    vault,            \* the keyvault object and the secrets of the vault it reads
    agent,            \* the module-level agent of langgraph_agent.py
    request,          \* the TicketRequest the /process_ticket handler was given
    response,         \* the TicketResponse the handler returned for it
    runs              \* the runs of process in flight together, per caller

vars == << state, pc, executed, result, llmClassify, searchBackend, llmGenerate,
           policyRaised, logStatus, logCalls, itemsBefore, searchConfigured,
           cosmosConfigured, items, clock, appended, pending, lastLog, lastGet,
           lastQuery, firstCall, secondCall, engineTables, environ, vault, agent,
           request, response, runs >>

runVars == << state, pc, executed, result, llmClassify, searchBackend,
              llmGenerate, policyRaised, logStatus, logCalls, itemsBefore,
              searchConfigured >>

storeOpVars == << appended, pending, lastLog, lastGet, lastQuery >>

engineVars == << firstCall, secondCall, engineTables >>

startupVars == << environ, vault, agent >>

handlerVars == << request, response >>

serviceVars == << startupVars, handlerVars, runs >>

(***************************************************************************)
(* Inputs                                                                  *)
(***************************************************************************)
InternalReporter == <<"u","@","c","o","m","p","a","n","y",".","c","o","m">>
ExternalReporter == <<"u","@","g","m","a","i","l",".","c","o","m">>

TicketIds == {"T1", "T2"}

IssueKey(ticket_id) == IF ticket_id = "T1" THEN "PROJ-1" ELSE "PROJ-2"

Summary == "Database connection timeout"
Description == "Cannot connect to staging database - timeout after 30 seconds"

\* the well-formed tickets process is called with
TicketInputs ==
    {[ticket_id |-> t, issue_key |-> IssueKey(t), summary |-> Summary,
      description |-> Description, issue_type |-> "Bug", priority |-> p,
      reporter |-> rf[1], redaction_flags |-> rf[2]] :
        t \in TicketIds, p \in {"High", "Low"},
        rf \in {<<InternalReporter, {}>>, <<ExternalReporter, {}>>,
                <<InternalReporter, {"credit_card_detected"}>>}}

\* results of earlier runs, as log_decision receives them
SampleState(t, d) ==
    Merge(InitialState([ticket_id |-> t, issue_key |-> IssueKey(t),
                        summary |-> Summary, description |-> Description,
                        issue_type |-> "Bug",
                        priority |-> "High", reporter |-> InternalReporter,
                        redaction_flags |-> {}]),
          [department |-> d, team |-> "DBA", suggested_priority |-> "High",
           suggested_assignee |-> "dba-lead@company.com",
           classification_confidence |-> Num(95),
           retrieved_docs |-> <<"doc-1: Runbook">>,
           generated_comment |-> LlmComment])

DecisionSamples ==
    {ProcessResult(SampleState(td[1], td[2])) :
        td \in {<<"T1", "IT">>, <<"T1", "HR">>, <<"T2", "IT">>}}

\* the record an earlier run for ticket T1 left in the container at tick 0
PriorRecord ==
    DecisionLog("T1", IssueKey("T1"), ProcessResult(SampleState("T1", "IT")), 0)

Callers == {1, 2}

NoRecord == <<>>

IdleLog == [status |-> "none", ret |-> NoneId]
IdleGet == [status |-> "none", ticket_id |-> "", found |-> NoRecord]
IdleQuery == [status |-> "none", department |-> "", start_date |-> NoRecord,
              end_date |-> NoRecord, max_items |-> 0, found |-> <<>>]

\* no call of evaluate_ticket has been made
NoCall == [made |-> FALSE]

\* a development environment: only OPENAI_API_KEY is set, no vault
DevEnviron == [n \in EnvNames |-> IF n = "OPENAI_API_KEY" THEN "value" ELSE MISSING]
NoVault == [configured |-> FALSE, secrets |-> [n \in SecretNames |-> VaultAbsent]]

NoRequest == <<>>
NoRuns == <<>>

\* the module was imported in the development environment; the request
\* handler has not been called and no runs are in flight together
ServiceIdle ==
    /\ environ = DevEnviron
    /\ vault = NoVault
    /\ agent = ConstructAgent(DevEnviron, NoVault)
    /\ request = NoRequest
    /\ response = NoRequest
    /\ runs = NoRuns

(***************************************************************************)
(* One run of process                                                      *)
(***************************************************************************)
Init ==
    /\ \E ticket_data \in TicketInputs : state = InitialState(ticket_data)
    /\ pc = "classify"
    /\ executed = <<>>
    /\ result = <<>>
    /\ llmClassify = ClassifierFailure("not_called")
    /\ searchBackend = BackendNotCalled
    /\ llmGenerate = "not_called"
    /\ policyRaised = FALSE
    /\ logStatus = "none"
    /\ logCalls = 0
    /\ itemsBefore = <<>>
    /\ searchConfigured \in BOOLEAN
    /\ cosmosConfigured \in BOOLEAN
    /\ items \in (IF cosmosConfigured THEN {<<>>, <<PriorRecord>>} ELSE {<<>>})
    /\ clock = 0
    /\ appended = items
    /\ pending = [c \in Callers |-> NoRecord]
    /\ lastLog = IdleLog
    /\ lastGet = IdleGet
    /\ lastQuery = IdleQuery
    /\ firstCall = NoCall
    /\ secondCall = NoCall
    /\ engineTables = PolicyTables
    /\ ServiceIdle

\* classify_node
ClassifyNode ==
    /\ pc = "classify"
    /\ \E resp \in ClassifierResponses :
        /\ llmClassify' = resp
        /\ state' = Merge(state, ClassifyUpdate(state, resp))
    /\ executed' = Append(executed, "classify")
    /\ pc' = NextNode("classify")
    /\ UNCHANGED << result, searchBackend, llmGenerate, policyRaised, logStatus,
                    logCalls, itemsBefore, searchConfigured, cosmosConfigured, items, clock,
                    storeOpVars, engineVars, serviceVars >>

\* retrieve_node
RetrieveNode ==
    /\ pc = "retrieve"
    /\ \E backend \in (IF searchConfigured THEN BackendOutcomes
                                           ELSE {BackendNotCalled}) :
        /\ searchBackend' = backend
        /\ state' = Merge(state, RetrieveUpdate(state, searchConfigured, backend))
    /\ executed' = Append(executed, "retrieve")
    /\ pc' = NextNode("retrieve")
    /\ UNCHANGED << result, llmClassify, llmGenerate, policyRaised, logStatus,
                    logCalls, itemsBefore, searchConfigured, cosmosConfigured, items, clock,
                    storeOpVars, engineVars, serviceVars >>

\* where the run goes from generate_node: an exception raised outside the
\* node's try block leaves the graph and process
AfterGenerate(raises) == IF raises THEN "aborted" ELSE NextNode("generate")

\* generate_node
GenerateNode ==
    /\ pc = "generate"
    /\ \E llm \in (IF GenerateRaises(state) THEN {"not_called"} ELSE {"ok", "raise"}) :
        /\ llmGenerate' = llm
        /\ state' = IF GenerateRaises(state) THEN state
                    ELSE Merge(state, GenerateUpdate(state, llm))
    /\ executed' = Append(executed, "generate")
    /\ pc' = AfterGenerate(GenerateRaises(state))
    /\ UNCHANGED << result, llmClassify, searchBackend, policyRaised, logStatus,
                    logCalls, itemsBefore, searchConfigured, cosmosConfigured, items, clock,
                    storeOpVars, engineVars, serviceVars >>

\* policy_node
PolicyNode ==
    /\ pc = "policy"
    /\ policyRaised' = EvaluateRaises(state.department, state.classification_confidence)
    /\ state' = Merge(state, PolicyUpdate(state, Seconds(clock)))
    /\ executed' = Append(executed, "policy")
    /\ pc' = NextNode("policy")
    /\ UNCHANGED << result, llmClassify, searchBackend, llmGenerate, logStatus,
                    logCalls, itemsBefore, searchConfigured, cosmosConfigured, items, clock,
                    storeOpVars, engineVars, serviceVars >>

\* process without the try/except around log_decision
AfterLogUncaught(raised) == IF raised THEN "aborted" ELSE "returned"

\* where process goes after the log_decision call: its try/except catches
\* every exception
AfterLog(raised) == "returned"

\* process from the end of the graph: build the result, log it, return it
Finish ==
    /\ pc = "done"
    /\ \E now \in clock..MaxClock, service \in ServiceOutcomes :
        LET res == ProcessResult(state)
            log == LogDecision(cosmosConfigured, items, res.ticket_id,
                               res.issue_key, res, now, service)
        IN /\ clock' = now
           /\ itemsBefore' = items
           /\ items' = log.items
           /\ logStatus' = log.status
           /\ logCalls' = logCalls + 1
           /\ pc' = AfterLog(log.raised)
           /\ result' = IF AfterLog(log.raised) = "returned" THEN <<res>> ELSE <<>>
    /\ UNCHANGED << state, executed, llmClassify, searchBackend, llmGenerate,
                    policyRaised, searchConfigured, cosmosConfigured, storeOpVars, engineVars, serviceVars >>

Next == ClassifyNode \/ RetrieveNode \/ GenerateNode \/ PolicyNode \/ Finish

Spec == Init /\ [][Next]_vars

(***************************************************************************)
(* Properties of one run of process                                        *)
(***************************************************************************)
AllStages == <<"classify", "retrieve", "generate", "policy">>

Ended == pc \in {"returned", "aborted"}

\* the nodes entered so far are the first nodes of the graph, in its order
StagesInOrder == executed = SubSeq(AllStages, 1, Len(executed))

\* C1: every run of process executes Classify, Retrieve, Generate, Policy in
\* this order, each exactly once, and then reaches Done: the stages entered
\* are always the first stages of that order, a run is at Done or beyond only
\* after all four, and no run ends having skipped a stage.
C1_AllStagesOnceThenDone ==
    /\ StagesInOrder
    /\ pc \in {"done", "returned"} => executed = AllStages
    /\ Ended => executed = AllStages

\* C2: no behaviour of the collaborators aborts the pipeline: process never
\* ends with an exception, whatever the classifier, retriever, generator and
\* policy engine did.
C2_NeverAborts == pc # "aborted"

\* the fields Classify owns, as a record
ClassifyFields(st) ==
    [department |-> st.department,
     team |-> st.team,
     suggested_priority |-> st.suggested_priority,
     suggested_assignee |-> st.suggested_assignee,
     classification_confidence |-> st.classification_confidence]

FailSafeUpdate ==
    [policy_flags |-> <<"policy_evaluation_error">>, requires_human_review |-> TRUE]

\* C3: whenever evaluate_ticket fails inside the Policy stage, the stage's
\* output is policy_flags = <<policy_evaluation_error>> and
\* requires_human_review = TRUE, in the state and in the returned result; and
\* policy_node gives this update for every department and confidence on which
\* the engine raises.
C3_PolicyFailSafe ==
    /\ (policyRaised /\ pc \in {"done", "returned"}) =>
          /\ state.policy_flags = <<"policy_evaluation_error">>
          /\ state.requires_human_review = TRUE
    /\ (policyRaised /\ pc = "returned") =>
          /\ result[1].policy_flags = <<"policy_evaluation_error">>
          /\ result[1].requires_human_review = TRUE
    /\ \A d \in {"IT", "Legal", "General", ListDept},
          c \in {Num(95), Num(0), NullConf, StrConf} :
          EvaluateRaises(d, c) =>
              PolicyUpdate(Merge(state, [department |-> d,
                                         classification_confidence |-> c]),
                           Seconds(clock)) = FailSafeUpdate

C3_Witness == policyRaised /\ pc = "returned"

\* the classifier failed or returned invalid data: the call raised, the
\* content was no JSON object, or the confidence is absent, null or no number
InvalidClassification(resp) ==
    \/ resp.kind \in {"raise", "bad_json", "not_dict"}
    \/ resp.kind = "dict" /\ resp.confidence.kind # "num"

\* C4: whenever the classifier fails or returns invalid data, the update of
\* Classify is exactly the fallback (General, Support, the ticket's priority,
\* support@company.com, confidence 0.0).
C4_InvalidClassificationFallsBack ==
    (pc # "classify" /\ InvalidClassification(llmClassify)) =>
        ClassifyFields(state) =
            [department |-> "General",
             team |-> "Support",
             suggested_priority |-> state.priority,
             suggested_assignee |-> "support@company.com",
             classification_confidence |-> Num(0)]

\* C5: whenever the search backend errors, the run still reaches Done and the
\* citation list is exactly the single fallback reference built from the
\* department Classify produced.
C5_RetrieveErrorGivesFallbackCitation ==
    (searchBackend.kind = "error" /\ pc \notin {"classify", "retrieve"}) =>
        /\ state.retrieved_docs =
              << state.department \o "-KB-001: General Support Guidelines (fallback)" >>
        /\ pc # "aborted"

\* what Classify produced in this run
Classified == ClassifyUpdate(state, llmClassify)

\* C6: whenever the generator call fails, generated_comment is the templated
\* text naming the department, team and suggested_assignee that Classify
\* produced, and the run goes on to Policy.
C6_GenerateFallbackComment ==
    llmGenerate = "raise" =>
        /\ state.generated_comment =
              "This ticket has been received and classified as "
                  \o Classified.department \o " - " \o Classified.team
                  \o ". Assigning to " \o Classified.suggested_assignee
                  \o " for review."
        /\ pc \in {"policy", "done", "returned"}
        /\ pc \in {"done", "returned"} => executed = AllStages

C6_Witness ==
    /\ llmGenerate = "raise"
    /\ pc = "returned"
    /\ llmClassify.kind = "dict"
    /\ llmClassify.suggested_assignee # MISSING

\* C7: a failure of the Decision Store append never makes process fail, never
\* re-runs a stage and never changes the result: once log_decision was called,
\* however it ended, process has returned the result built from the final
\* state, the stages have run once each, and a failed append left the store
\* as it was.
C7_LogFailureIsHarmless ==
    logStatus # "none" =>
        /\ pc = "returned"
        /\ result = << ProcessResult(state) >>
        /\ executed = AllStages
        /\ logCalls = 1
        /\ logStatus \in {"http_error", "conflict", "raised"} => items = itemsBefore

C7_Witness == logStatus = "raised" /\ pc = "returned"

\* C8 as claimed: every run that reaches Done leaves exactly one more record
\* in the store than before, carrying the run's ticket_id.
C8_ExactlyOneRecordStored ==
    pc = "returned" =>
        /\ Len(items) = Len(itemsBefore) + 1
        /\ items[Len(items)].ticket_id = state.ticket_id

\* C8 amended: every run that reaches Done calls log_decision exactly once;
\* when the store is configured and the append succeeds the store holds
\* exactly one more record than before, the snapshot of the run's result
\* with its ticket_id; otherwise (store not configured, service error or id
\* conflict) the store is unchanged.
C8_OneAppendAttempt ==
    /\ pc = "returned" => logCalls = 1
    /\ pc # "returned" => logCalls = 0
    /\ (pc = "returned" /\ logStatus = "created") =>
          /\ cosmosConfigured
          /\ Len(items) = Len(itemsBefore) + 1
          /\ SubSeq(items, 1, Len(itemsBefore)) = itemsBefore
          /\ items[Len(items)].ticket_id = state.ticket_id
          /\ items[Len(items)].classification = result[1].classification
          /\ items[Len(items)].policy_flags = result[1].policy_flags
    /\ (pc = "returned" /\ logStatus # "created") => items = itemsBefore
    /\ (pc = "returned" /\ ~cosmosConfigured) => logStatus = "mock"

C8_Witness == pc = "returned" /\ logStatus = "created" /\ Len(items) = 2

(***************************************************************************)
(* The decision logger used by concurrent callers                          *)
(***************************************************************************)
\* ORDER BY c.timestamp ASC in place of DESC
OrderByTimestampAsc(its, idx) ==
    {[k \in 1..Cardinality(idx) |-> its[perm[k]]] :
        perm \in {q \in [1..Cardinality(idx) -> idx] :
                    /\ \A a, b \in 1..Cardinality(idx) : a # b => q[a] # q[b]
                    /\ \A a, b \in 1..Cardinality(idx) :
                          a < b => IsoLeq(its[q[a]].timestamp, its[q[b]].timestamp)}}

\* ORDER BY c.timestamp DESC: the orders the service may return the selected
\* items in (items with equal timestamps come in any order)
OrderByTimestampDesc(its, idx) ==
    {[k \in 1..Cardinality(idx) |-> its[perm[k]]] :
        perm \in {q \in [1..Cardinality(idx) -> idx] :
                    /\ \A a, b \in 1..Cardinality(idx) : a # b => q[a] # q[b]
                    /\ \A a, b \in 1..Cardinality(idx) :
                          a < b => IsoLeq(its[q[b]].timestamp, its[q[a]].timestamp)}}

\* container.query_items drained by list(), for the positions the WHERE
\* clause selects: max_item_count is the page size of the enumeration, not a
\* limit, so every selected item is returned
QueryItems(its, selected, max_item_count) == OrderByTimestampDesc(its, selected)

\* the WHERE clause query_decisions builds; a filter that is None (or an empty
\* department) adds no condition
DecisionFilter(item, department, start_date, end_date) ==
    /\ department # "" => item.department = department
    /\ start_date # NoRecord => IsoLeq(start_date, item.timestamp)
    /\ end_date # NoRecord => IsoLeq(item.timestamp, end_date)

\* CosmosDBDecisionLogger.query_decisions: the lists it may return
QueryDecisionsResults(configured, its, service, department, start_date, end_date, max_items) ==
    IF ~configured \/ service # "ok" THEN { <<>> }
    ELSE QueryItems(its,
                    {i \in 1..Len(its) :
                        DecisionFilter(its[i], department, start_date, end_date)},
                    max_items)

\* items[0] if items else None
FirstOrNone(found) == IF found = <<>> THEN NoRecord ELSE << found[1] >>

\* CosmosDBDecisionLogger.get_decision_by_ticket: the values it may return
GetDecisionResults(configured, its, service, ticket_id) ==
    IF ~configured \/ service # "ok" THEN { NoRecord }
    ELSE {FirstOrNone(found) :
            found \in QueryItems(its,
                                 {i \in 1..Len(its) : its[i].ticket_id = ticket_id},
                                 1)}

\* how a read call ends: a CosmosHttpResponseError is caught, any other
\* exception leaves the method
ReadStatus(configured, service) ==
    IF ~configured THEN "unconfigured"
    ELSE IF service = "ok" THEN "ok"
         ELSE IF service = "http_error" THEN "http_error" ELSE "raised"

NumPending == Cardinality({c \in Callers : pending[c] # NoRecord})

StoreInit ==
    /\ state = InitialState(CHOOSE t \in TicketInputs : TRUE)
    /\ pc = "idle"
    /\ executed = <<>>
    /\ result = <<>>
    /\ llmClassify = ClassifierFailure("not_called")
    /\ searchBackend = BackendNotCalled
    /\ llmGenerate = "not_called"
    /\ policyRaised = FALSE
    /\ logStatus = "none"
    /\ logCalls = 0
    /\ itemsBefore = <<>>
    /\ searchConfigured = FALSE
    /\ cosmosConfigured \in BOOLEAN
    /\ items = <<>>
    /\ clock = 0
    /\ appended = <<>>
    /\ pending = [c \in Callers |-> NoRecord]
    /\ lastLog = IdleLog
    /\ lastGet = IdleGet
    /\ lastQuery = IdleQuery
    /\ firstCall = NoCall
    /\ secondCall = NoCall
    /\ engineTables = PolicyTables
    /\ ServiceIdle

\* time passes
Tick ==
    /\ clock < MaxClock
    /\ clock' = clock + 1
    /\ lastLog' = IdleLog
    /\ lastGet' = IdleGet
    /\ lastQuery' = IdleQuery
    /\ UNCHANGED << runVars, engineVars, serviceVars, cosmosConfigured, items, appended, pending >>

\* log_decision up to the create_item call: the unconfigured logger returns
\* None; the configured one reads the clock and builds decision_log
LogBegin(c) ==
    /\ pending[c] = NoRecord
    /\ Len(items) + NumPending < MaxStore
    /\ \E data \in DecisionSamples :
        IF cosmosConfigured
        THEN /\ pending' = [pending EXCEPT ![c] =
                    << DecisionLog(data.ticket_id, data.issue_key, data, clock) >>]
             /\ lastLog' = IdleLog
        ELSE /\ lastLog' = [status |-> "mock", ret |-> NoneId]
             /\ UNCHANGED pending
    /\ lastGet' = IdleGet
    /\ lastQuery' = IdleQuery
    /\ UNCHANGED << runVars, engineVars, serviceVars, cosmosConfigured, items, clock, appended >>

\* log_decision from the create_item call to its return
LogEnd(c) ==
    /\ pending[c] # NoRecord
    /\ \E service \in ServiceOutcomes :
        LET log == LogCreate(items, pending[c][1], service)
        IN /\ items' = log.items
           /\ appended' = IF log.ret.none THEN appended
                          ELSE Append(appended, pending[c][1])
           /\ lastLog' = [status |-> log.status, ret |-> log.ret]
    /\ pending' = [pending EXCEPT ![c] = NoRecord]
    /\ lastGet' = IdleGet
    /\ lastQuery' = IdleQuery
    /\ UNCHANGED << runVars, engineVars, serviceVars, cosmosConfigured, clock >>

\* get_decision_by_ticket
GetDecisionByTicket ==
    /\ \E ticket_id \in TicketIds, service \in ServiceOutcomes :
        \E found \in GetDecisionResults(cosmosConfigured, items, service, ticket_id) :
            lastGet' = [status |-> ReadStatus(cosmosConfigured, service),
                        ticket_id |-> ticket_id, found |-> found]
    /\ lastLog' = IdleLog
    /\ lastQuery' = IdleQuery
    /\ UNCHANGED << runVars, engineVars, serviceVars, cosmosConfigured, items, clock, appended, pending >>

\* the filters query_decisions is called with: department, start_date,
\* end_date, max_items ("" and NoRecord stand for None)
QueryInputs ==
    { <<"", NoRecord, NoRecord, 100>>,
      <<"IT", NoRecord, NoRecord, 1>>,
      <<"", Isoformat(1), NoRecord, 1>>,
      <<"IT", NoRecord, Isoformat(1), 100>> }

\* query_decisions
QueryDecisions ==
    /\ \E q \in QueryInputs, service \in ServiceOutcomes :
        \E found \in QueryDecisionsResults(cosmosConfigured, items, service,
                                           q[1], q[2], q[3], q[4]) :
            lastQuery' = [status |-> ReadStatus(cosmosConfigured, service),
                          department |-> q[1], start_date |-> q[2],
                          end_date |-> q[3], max_items |-> q[4],
                          found |-> found]
    /\ lastLog' = IdleLog
    /\ lastGet' = IdleGet
    /\ UNCHANGED << runVars, engineVars, serviceVars, cosmosConfigured, items, clock, appended, pending >>

StoreNext ==
    \/ Tick
    \/ \E c \in Callers : LogBegin(c)
    \/ \E c \in Callers : LogEnd(c)
    \/ GetDecisionByTicket
    \/ QueryDecisions

StoreSpec == StoreInit /\ [][StoreNext]_vars

(***************************************************************************)
(* Properties of the decision logger                                       *)
(***************************************************************************)
Max(S) == CHOOSE m \in S : \A k \in S : k <= m

\* the positions of the stored records of a ticket
RecordsOf(ticket_id) == {i \in 1..Len(items) : items[i].ticket_id = ticket_id}

\* the record of the ticket that was appended last, or no record
MostRecentlyAppended(ticket_id) ==
    IF RecordsOf(ticket_id) = {} THEN NoRecord
    ELSE << items[Max(RecordsOf(ticket_id))] >>

\* every record log_decision returned an id for is in the container, as it
\* was written, and the container holds nothing else
AppendOnly == items = appended

\* C9 as claimed, for the calls whose query the service serves: the store is
\* append-only, and get_decision_by_ticket(t) returns the most recently
\* appended record of ticket t.
C9_GetReturnsMostRecentlyAppended ==
    /\ AppendOnly
    /\ lastGet.status = "ok" =>
          lastGet.found = MostRecentlyAppended(lastGet.ticket_id)

\* C9 amended: the store is append-only; a served get_decision_by_ticket(t)
\* returns, field for field, a stored record of t whose timestamp is the
\* greatest among t's stored records (None when t has none), which is the
\* most recently appended one when its timestamp is later than those of t's
\* other records; an unconfigured logger or a failed query gives None.
C9_AppendOnlyLatestByTimestamp ==
    /\ AppendOnly
    /\ lastGet.status = "ok" =>
          LET idx == RecordsOf(lastGet.ticket_id)
          IN /\ idx = {} => lastGet.found = NoRecord
             /\ idx # {} =>
                   \E i \in idx :
                       /\ lastGet.found = << items[i] >>
                       /\ \A j \in idx :
                             IsoLeq(items[j].timestamp, items[i].timestamp)
             /\ (idx # {} /\ \A j \in idx \ {Max(idx)} :
                     ~IsoLeq(items[Max(idx)].timestamp, items[j].timestamp))
                   => lastGet.found = MostRecentlyAppended(lastGet.ticket_id)
    /\ lastGet.status \in {"unconfigured", "http_error", "raised"} =>
          lastGet.found = NoRecord

C9_Witness ==
    /\ lastGet.status = "ok"
    /\ Cardinality(RecordsOf(lastGet.ticket_id)) = 2
    /\ items[1].timestamp # items[2].timestamp
    /\ lastGet.found = MostRecentlyAppended(lastGet.ticket_id)

\* C10: appends of concurrent runs never conflict: no log_decision call on a
\* configured store is refused because its record id is already taken, so
\* every append the service serves yields its own stored record.
C10_AppendsNeverConflict ==
    /\ lastLog.status # "conflict"
    /\ lastLog.status \in {"created", "conflict"} =>
          /\ ~lastLog.ret.none
          /\ \E i \in 1..Len(items) : items[i].id = lastLog.ret.id

(***************************************************************************)
(* Calls of policy_engine.evaluate_ticket                                  *)
(***************************************************************************)
UpperInternalReporter == <<"U","@","C","O","M","P","A","N","Y",".","C","O","M">>
\* an address at gmail.com whose quoted local part holds "@":
\* "x@company.com@y"@gmail.com
TwoAtReporter ==
    <<"\"","x","@","c","o","m","p","a","n","y",".","c","o","m","@","y","\"",
      "@","g","m","a","i","l",".","c","o","m">>
NoReporter == <<>>

ReporterInputs ==
    {InternalReporter, UpperInternalReporter, ExternalReporter, TwoAtReporter,
     NoReporter}

RedactionInputs ==
    { {}, {"email_address_detected"}, {"credit_card_detected"},
      {"us_ssn_detected", "crypto_detected"},
      {"us_passport_detected", "email_address_detected"} }

\* "General" has no entry in department_policies
DepartmentInputs == {"IT", "Legal", "Finance", "General"}

PriorityInputs == {"Critical", "High", "Medium", "Low"}

\* confidences in hundredths, around the thresholds 0.6, 0.7, 0.85 and 0.9
ConfidenceInputs == {59, 69, 70, 84, 85, 89, 90, 95, 100}

\* the policy_flags argument: policy_node passes [], another caller may pass
\* the flags of an earlier evaluation
ExistingFlagsInputs ==
    {<<>>, <<"auto_escalated">>, <<"external_contact_detected">>}

EvaluateInputs ==
    [reporter : ReporterInputs, redaction_flags : RedactionInputs,
     department : DepartmentInputs, priority : PriorityInputs,
     confidence : ConfidenceInputs, policy_flags : ExistingFlagsInputs]

\* the inputs of a later call: the same input, or the input with one of its
\* fields changed (reporter made external, a high-risk flag added, the
\* confidence lowered, the department changed to one with a mandate, other
\* existing flags)
LaterInputs(args) ==
    {args}
    \cup {[args EXCEPT !.reporter = ExternalReporter]}
    \cup {[args EXCEPT !.redaction_flags = @ \cup {f}] :
             f \in {"credit_card_detected", "us_passport_detected"}}
    \cup {[args EXCEPT !.confidence = c] :
             c \in {k \in ConfidenceInputs : k < args.confidence}}
    \cup {[args EXCEPT !.department = d] : d \in {"Legal", "Finance"}}
    \cup {[args EXCEPT !.policy_flags = fl] : fl \in ExistingFlagsInputs}

\* one call of evaluate_ticket at time now (in ticks): what it returns and
\* what it leaves in the lists it was given
EvaluateCall(args, now) ==
    LET out == EvaluateTicket(args.reporter, args.redaction_flags, args.department,
                              args.priority, Num(args.confidence),
                              args.policy_flags, Seconds(now))
    IN [made |-> TRUE, args |-> args, now |-> Seconds(now), out |-> out,
        lists |-> ListsAfterEvaluate(args.policy_flags, args.redaction_flags,
                                     out.policy_flags)]

PolicyInit ==
    /\ state = InitialState(CHOOSE t \in TicketInputs : TRUE)
    /\ pc = "first_call"
    /\ executed = <<>>
    /\ result = <<>>
    /\ llmClassify = ClassifierFailure("not_called")
    /\ searchBackend = BackendNotCalled
    /\ llmGenerate = "not_called"
    /\ policyRaised = FALSE
    /\ logStatus = "none"
    /\ logCalls = 0
    /\ itemsBefore = <<>>
    /\ searchConfigured = FALSE
    /\ cosmosConfigured = FALSE
    /\ items = <<>>
    /\ clock = 0
    /\ appended = <<>>
    /\ pending = [c \in Callers |-> NoRecord]
    /\ lastLog = IdleLog
    /\ lastGet = IdleGet
    /\ lastQuery = IdleQuery
    /\ firstCall = NoCall
    /\ secondCall = NoCall
    /\ engineTables = PolicyTables
    /\ ServiceIdle

\* a caller evaluates a ticket
EvaluateFirst ==
    /\ pc = "first_call"
    /\ \E args \in EvaluateInputs : firstCall' = EvaluateCall(args, clock)
    /\ engineTables' = TablesAfterEvaluate(engineTables)
    /\ pc' = "second_call"
    /\ UNCHANGED << state, executed, result, llmClassify, searchBackend, llmGenerate,
                    policyRaised, logStatus, logCalls, itemsBefore, searchConfigured,
                    cosmosConfigured, items, clock, storeOpVars, secondCall, serviceVars >>

\* later, a caller evaluates the same or a neighbouring input on the same engine
EvaluateSecond ==
    /\ pc = "second_call"
    /\ \E now \in clock..MaxClock, args \in LaterInputs(firstCall.args) :
        /\ clock' = now
        /\ secondCall' = EvaluateCall(args, now)
    /\ engineTables' = TablesAfterEvaluate(engineTables)
    /\ pc' = "both_called"
    /\ UNCHANGED << state, executed, result, llmClassify, searchBackend, llmGenerate,
                    policyRaised, logStatus, logCalls, itemsBefore, searchConfigured,
                    cosmosConfigured, items, storeOpVars, firstCall, serviceVars >>

PolicyNext == EvaluateFirst \/ EvaluateSecond

PolicySpec == PolicyInit /\ [][PolicyNext]_vars

(***************************************************************************)
(* Properties of evaluate_ticket                                           *)
(***************************************************************************)
\* the calls made so far
Calls == {c \in {firstCall, secondCall} : c.made}

ReviewForcingFlags ==
    {"low_confidence_classification", "external_contact_detected",
     "high_sensitivity_pii", "department_policy_requires_review"}

\* the flags the call appended to the ones it was given
AddedFlags(c) ==
    SubSeq(c.out.policy_flags, Len(c.args.policy_flags) + 1, Len(c.out.policy_flags))

Occurrences(s, x) == Cardinality({i \in 1..Len(s) : s[i] = x})

\* the clean Critical ticket of the scenarios: confidence 0.95, department IT,
\* internal reporter, no high-risk PII, no existing flags
CleanCriticalCall(c) ==
    /\ c.args.priority = "Critical"
    /\ c.args.confidence = 95
    /\ c.args.department = "IT"
    /\ c.args.reporter = InternalReporter
    /\ c.args.redaction_flags = {}
    /\ c.args.policy_flags = <<>>

\* C11: for every call of evaluate_ticket with no pre-existing flags,
\* requires_human_review is true if and only if the returned flags contain
\* one of the four review-forcing flags; the clean Critical ticket returns
\* exactly the flag critical_priority_escalation and requires_human_review
\* false.
C11_ReviewIsOrOfTriggers ==
    \A c \in Calls :
        c.args.policy_flags = <<>> =>
            /\ ~c.out.raised
            /\ c.out.requires_human_review
                  <=> (\E f \in ReviewForcingFlags : SeqContains(c.out.policy_flags, f))
            /\ CleanCriticalCall(c) =>
                  /\ c.out.policy_flags = <<"critical_priority_escalation">>
                  /\ ~c.out.requires_human_review

\* a clean Critical ticket and a call whose review is forced by PII alone
\* have both been evaluated
C11_Witness ==
    /\ firstCall.made /\ CleanCriticalCall(firstCall)
    /\ ~firstCall.out.requires_human_review
    /\ secondCall.made /\ secondCall.args.policy_flags = <<>>
    /\ secondCall.out.requires_human_review
    /\ secondCall.out.policy_flags
         = <<"high_sensitivity_pii", "critical_priority_escalation", "auto_escalated">>

\* the thresholds of the confidence gate, in hundredths: 0.85 for Legal and
\* Finance, 0.70 for every other department
GateThreshold(department) ==
    IF department \in {"Legal", "Finance"} THEN 85 ELSE 70

\* evaluate_ticket applied to an input at time 0
Evaluated(args) == EvaluateCall(args, 0)

\* the confidence gate on every input, with "HR" (in the policy table) and
\* "Marketing" and "" (absent from it) as further departments
ConfidenceGateOnAllInputs ==
    \A args \in EvaluateInputs, d \in DepartmentInputs \cup {"HR", "Marketing", ""} :
        LET c == Evaluated([args EXCEPT !.department = d])
            gated == Occurrences(AddedFlags(c), "low_confidence_classification")
        IN /\ ~c.out.raised
           /\ gated = (IF c.args.confidence < GateThreshold(d) THEN 1 ELSE 0)
           /\ gated = 1 => c.out.requires_human_review

\* C12: evaluate_ticket adds low_confidence_classification, and then returns
\* requires_human_review = true, exactly when the confidence is strictly below
\* the department's threshold (0.85 for Legal and Finance, 0.70 otherwise,
\* also for departments absent from the policy table); and every run of
\* process that returns a result whose confidence is below 0.7 returns
\* requires_human_review = true.
C12_ConfidenceGate ==
    /\ ConfidenceGateOnAllInputs
    /\ pc = "returned" =>
          /\ result[1].confidence.kind = "num"
          /\ result[1].confidence.v < 70 => result[1].requires_human_review

\* a run returned a result with confidence 0.5 whose review is forced by the
\* confidence gate alone
C12_Witness ==
    /\ pc = "returned"
    /\ result[1].confidence = Num(50)
    /\ result[1].requires_human_review
    /\ result[1].policy_flags = <<"low_confidence_classification">>

\* the domain of an address: the text after its last "@"
EmailDomain(email) ==
    SubSeq(email, Max(AtPositions(email)) + 1, Len(email))

\* the address has a domain and it ends with none of the internal suffixes
\* company.com, internal.company.com, corp.company.com, whatever its case
HasForeignDomain(email) ==
    /\ AtPositions(email) # {}
    /\ \A allowed \in ExternalDomainWhitelist :
          ~EndsWith(Lower(EmailDomain(email)), allowed)

\* C13: for every reporter address, evaluate_ticket adds
\* external_contact_detected, and then returns requires_human_review = true,
\* exactly when the domain of the address, compared case-insensitively,
\* matches none of the whitelisted internal suffixes.
C13_ExternalExactlyForeignDomain ==
    \A c \in Calls :
        LET flagged == Occurrences(AddedFlags(c), "external_contact_detected")
        IN /\ flagged = (IF HasForeignDomain(c.args.reporter) THEN 1 ELSE 0)
           /\ flagged = 1 => c.out.requires_human_review

\* the end-to-end half of C13: a run for a ticket with an external reporter
\* returns requires_human_review = true and the flag external_contact_detected
ExternalRunIsFlagged ==
    (pc = "returned" /\ HasForeignDomain(state.reporter)) =>
        /\ result[1].requires_human_review
        /\ SeqContains(result[1].policy_flags, "external_contact_detected")

\* C14: evaluate_ticket adds high_sensitivity_pii, once, and then returns
\* requires_human_review = true, exactly when redaction_flags contains at
\* least one of us_ssn_detected, credit_card_detected, crypto_detected,
\* us_passport_detected; other redaction flags alone do not trigger it.
C14_HighSensitivityPii ==
    \A c \in Calls :
        LET flagged == Occurrences(AddedFlags(c), "high_sensitivity_pii")
            risky == \E f \in c.args.redaction_flags :
                        f \in {"us_ssn_detected", "credit_card_detected",
                               "crypto_detected", "us_passport_detected"}
        IN /\ flagged = (IF risky THEN 1 ELSE 0)
           /\ flagged = 1 => c.out.requires_human_review

\* a ticket with only email_address_detected was not flagged, and the same
\* ticket with a passport number added was flagged once, by this rule alone
C14_Witness ==
    /\ firstCall.made /\ secondCall.made
    /\ firstCall.args.redaction_flags = {"email_address_detected"}
    /\ firstCall.out.policy_flags = <<>>
    /\ ~firstCall.out.requires_human_review
    /\ secondCall.args.redaction_flags
         = {"email_address_detected", "us_passport_detected"}
    /\ secondCall.out.policy_flags = <<"high_sensitivity_pii">>
    /\ secondCall.out.requires_human_review

\* C15: for department Legal or Finance evaluate_ticket always adds
\* department_policy_requires_review and returns requires_human_review = true,
\* whatever the confidence (1.0 included), priority, reporter and
\* redaction_flags; for every other department it never adds that flag.
C15_DepartmentMandate ==
    \A c \in Calls :
        LET flagged == Occurrences(AddedFlags(c), "department_policy_requires_review")
        IN IF c.args.department \in {"Legal", "Finance"}
           THEN flagged = 1 /\ c.out.requires_human_review
           ELSE flagged = 0

\* a clean IT ticket with confidence 1.0 needed no review, and the same
\* ticket classified Finance was sent to review by the mandate alone
C15_Witness ==
    /\ firstCall.made /\ secondCall.made
    /\ firstCall.args.department = "IT"
    /\ firstCall.args.confidence = 100
    /\ ~firstCall.out.requires_human_review
    /\ secondCall.args = [firstCall.args EXCEPT !.department = "Finance"]
    /\ secondCall.out.policy_flags = <<"department_policy_requires_review">>
    /\ secondCall.out.requires_human_review

\* rules (a) and (b) of the auto-escalation
EscalatesOnConfidence(c) ==
    \/ c.args.priority = "Critical" /\ c.args.confidence < 90
    \/ c.args.priority = "High" /\ c.args.confidence < 60

\* C16 as claimed: evaluate_ticket adds auto_escalated and returns
\* auto_escalate = true exactly when (a) priority is Critical and confidence
\* < 0.9, or (b) priority is High and confidence < 0.6, or (c) a
\* review-forcing flag is present and priority is Critical or High; in
\* every other case auto_escalate is false.
C16_AutoEscalationExactly ==
    \A c \in Calls :
        LET escalates ==
                \/ EscalatesOnConfidence(c)
                \/ /\ \E f \in ReviewForcingFlags : SeqContains(c.out.policy_flags, f)
                   /\ c.args.priority \in {"Critical", "High"}
        IN /\ Occurrences(AddedFlags(c), "auto_escalated") = (IF escalates THEN 1 ELSE 0)
           /\ c.out.auto_escalate <=> escalates

\* C16 amended: evaluate_ticket adds auto_escalated exactly when (a), or (b),
\* or (c) one of the four review-forcing rules fired in this call and
\* priority is Critical or High; auto_escalate is true exactly when the flag
\* was added or was already among the flags passed in; the clean Critical
\* ticket with confidence 0.95 is not escalated.
C16_AutoEscalation ==
    \A c \in Calls :
        LET escalates ==
                \/ EscalatesOnConfidence(c)
                \/ /\ \E f \in ReviewForcingFlags : SeqContains(AddedFlags(c), f)
                   /\ c.args.priority \in {"Critical", "High"}
        IN /\ Occurrences(AddedFlags(c), "auto_escalated") = (IF escalates THEN 1 ELSE 0)
           /\ c.out.auto_escalate
                 <=> (escalates \/ SeqContains(c.args.policy_flags, "auto_escalated"))
           /\ CleanCriticalCall(c) => ~c.out.auto_escalate

\* the clean Critical ticket was not escalated at confidence 0.95 and was
\* escalated, by rule (a) alone, at confidence 0.89
C16_Witness ==
    /\ firstCall.made /\ CleanCriticalCall(firstCall)
    /\ ~firstCall.out.auto_escalate
    /\ secondCall.made
    /\ secondCall.args = [firstCall.args EXCEPT !.confidence = 89]
    /\ secondCall.out.policy_flags = <<"critical_priority_escalation", "auto_escalated">>
    /\ secondCall.out.auto_escalate
    /\ ~secondCall.out.requires_human_review

\* input b is input a with one review-forcing condition added and everything
\* else the same: the reporter made external, high-risk PII flags added, the
\* confidence lowered below the department's threshold, or the department
\* changed to Legal or Finance
AddsReviewCondition(a, b) ==
    \/ /\ b = [a EXCEPT !.reporter = b.reporter]
       /\ ~HasForeignDomain(a.reporter) /\ HasForeignDomain(b.reporter)
    \/ /\ b = [a EXCEPT !.redaction_flags = b.redaction_flags]
       /\ a.redaction_flags \subseteq b.redaction_flags
       /\ b.redaction_flags \ a.redaction_flags # {}
       /\ b.redaction_flags \ a.redaction_flags
            \subseteq {"us_ssn_detected", "credit_card_detected",
                       "crypto_detected", "us_passport_detected"}
    \/ /\ b = [a EXCEPT !.confidence = b.confidence]
       /\ b.confidence < a.confidence
       /\ b.confidence < GateThreshold(a.department)
    \/ /\ b = [a EXCEPT !.department = b.department]
       /\ a.department \notin {"Legal", "Finance"}
       /\ b.department \in {"Legal", "Finance"}

SameDecision(c, d) ==
    /\ c.out.policy_flags = d.out.policy_flags
    /\ c.out.requires_human_review = d.out.requires_human_review
    /\ c.out.escalation_reason = d.out.escalation_reason
    /\ c.out.auto_escalate = d.out.auto_escalate
    /\ c.out.sla_target = d.out.sla_target

\* evaluate_ticket left the engine's tables and the lists it was given as
\* they were
EvaluateChangesNothing ==
    /\ engineTables = PolicyTables
    /\ \A c \in Calls :
          /\ c.lists.policy_flags = c.args.policy_flags
          /\ c.lists.redaction_flags = c.args.redaction_flags

BaseTargetHours(priority) ==
    CASE priority = "Critical" -> 1
      [] priority = "High" -> 4
      [] priority = "Medium" -> 24
      [] priority = "Low" -> 72

DepartmentFactor(department) ==
    CASE department = "Legal" -> 50
      [] department = "Finance" -> 75
      [] OTHER -> 100

\* C19: for every priority and department, sla_target is the base target
\* (Critical 1 h, High 4 h, Medium 24 h, Low 72 h) times the department
\* factor (Legal 0.5, Finance 0.75, others 1.0): Critical/IT is 1.0 hours,
\* Critical/Legal 0.5 hours, Low/Finance 54 hours.
C19_SlaTarget ==
    \A c \in Calls :
        LET hours == TargetHours(c.out.sla_target)
        IN /\ c.out.sla_target * 100 = 3600 * hours
           /\ hours = BaseTargetHours(c.args.priority)
                        * DepartmentFactor(c.args.department)
           /\ (c.args.priority = "Critical" /\ c.args.department = "IT") => hours = 100
           /\ (c.args.priority = "Critical" /\ c.args.department = "Legal") => hours = 50
           /\ (c.args.priority = "Low" /\ c.args.department = "Finance") => hours = 5400

\* a Low ticket of the General department got 72 hours and the same ticket
\* classified Finance got 54 hours
C19_Witness ==
    /\ firstCall.made /\ secondCall.made
    /\ firstCall.args.priority = "Low"
    /\ firstCall.args.department = "General"
    /\ TargetHours(firstCall.out.sla_target) = 7200
    /\ secondCall.args = [firstCall.args EXCEPT !.department = "Finance"]
    /\ TargetHours(secondCall.out.sla_target) = 5400

\* C20: with t the instant of the evaluation, warning_time = t + 0.75 x
\* target and breach_time = t + target, hence t < warning_time < breach_time
\* and breach_time - warning_time = 0.25 x (breach_time - t), for every
\* department and priority.
C20_SlaOrdering ==
    \A c \in Calls :
        LET t == c.now
            warning == c.out.sla_warning_time
            breach == c.out.sla_breach_time
        IN /\ (warning - t) * 100 = 75 * c.out.sla_target
           /\ breach - t = c.out.sla_target
           /\ t < warning /\ warning < breach
           /\ 4 * (breach - warning) = breach - t

\* a Critical Legal ticket evaluated at second 1: target 1800 s, warning at
\* 1351, breach at 1801
C20_Witness ==
    /\ secondCall.made
    /\ secondCall.now = 1
    /\ secondCall.args.priority = "Critical"
    /\ secondCall.args.department = "Legal"
    /\ secondCall.out.sla_warning_time = 1351
    /\ secondCall.out.sla_breach_time = 1801

(***************************************************************************)
(* Start of the service: import of langgraph_agent.py                      *)
(***************************************************************************)
\* the variables of a run of process before any run has started
NoRunYet ==
    /\ state = InitialState(CHOOSE t \in TicketInputs : TRUE)
    /\ executed = <<>>
    /\ result = <<>>
    /\ llmClassify = ClassifierFailure("not_called")
    /\ searchBackend = BackendNotCalled
    /\ llmGenerate = "not_called"
    /\ policyRaised = FALSE
    /\ logStatus = "none"
    /\ logCalls = 0
    /\ itemsBefore = <<>>

\* the decision logger and the policy engine before any call
NoCallsYet ==
    /\ appended = <<>>
    /\ pending = [c \in Callers |-> NoRecord]
    /\ lastLog = IdleLog
    /\ lastGet = IdleGet
    /\ lastQuery = IdleQuery
    /\ firstCall = NoCall
    /\ secondCall = NoCall
    /\ engineTables = PolicyTables

\* the vaults the service may be started with
VaultInputs ==
    {NoVault} \cup {[configured |-> TRUE, secrets |-> f] :
                        f \in [SecretNames -> VaultValues]}

StartupInit ==
    /\ NoRunYet
    /\ NoCallsYet
    /\ pc = "startup"
    /\ searchConfigured = FALSE
    /\ cosmosConfigured = FALSE
    /\ items = <<>>
    /\ clock = 0
    /\ environ \in [EnvNames -> EnvValues]
    /\ vault \in VaultInputs
    /\ agent = "not_constructed"
    /\ request = NoRequest
    /\ response = NoRequest
    /\ runs = NoRuns

\* agent = JIRATriageAgent() at the end of the module: a ValueError of
\* __init__ fails the import, and the name agent is never bound
ImportAgentModule ==
    /\ pc = "startup"
    /\ agent' = ConstructAgent(environ, vault)
    /\ pc' = IF ConstructAgent(environ, vault) = "failed" THEN "import_failed"
                                                         ELSE "ready"
    /\ UNCHANGED << state, executed, result, llmClassify, searchBackend, llmGenerate,
                    policyRaised, logStatus, logCalls, itemsBefore, searchConfigured,
                    cosmosConfigured, items, clock, storeOpVars, engineVars,
                    environ, vault, handlerVars, runs >>

\* a caller that imported the module calls agent.process(ticket_data): the
\* run starts at the graph's entry point
BeginProcess ==
    /\ pc = "ready"
    /\ \E ticket_data \in TicketInputs : state' = InitialState(ticket_data)
    /\ pc' = "classify"
    /\ UNCHANGED << executed, result, llmClassify, searchBackend, llmGenerate,
                    policyRaised, logStatus, logCalls, itemsBefore, searchConfigured,
                    cosmosConfigured, items, clock, storeOpVars, engineVars,
                    serviceVars >>

StartupNext == ImportAgentModule \/ BeginProcess

StartupSpec == StartupInit /\ [][StartupNext]_vars

(***************************************************************************)
(* Properties of the start of the service                                  *)
(***************************************************************************)
\* a credential is available from the environment or from the vault
InVault(secret_name) == vault.configured /\ vault.secrets[secret_name] = "value"

AzurePairAvailable ==
    /\ Truthy(environ["AZURE_OPENAI_ENDPOINT"]) \/ InVault("Azure-OpenAI-Endpoint")
    /\ Truthy(environ["AZURE_OPENAI_API_KEY"]) \/ InVault("Azure-OpenAI-API-Key")

OpenAiKeyAvailable ==
    Truthy(environ["OPENAI_API_KEY"]) \/ InVault("OpenAI-API-Key")

\* C21: once the module has been imported, constructing JIRATriageAgent has
\* failed exactly when neither an Azure OpenAI endpoint+key pair nor an
\* OpenAI API key is available from the environment or the vault; after a
\* failed construction no run of process ever starts, and with either
\* credential set available the agent exists.
C21_FatalOnlyWithoutCredentials ==
    /\ pc # "startup" =>
          (agent = "failed" <=> ~(AzurePairAvailable \/ OpenAiKeyAvailable))
    /\ agent = "failed" => pc = "import_failed"
    /\ pc = "classify" => agent \in {"azure", "openai"}

\* the halves of C21 that the code keeps: without any credential construction
\* fails and no run starts; with an Azure pair, or with OPENAI_API_KEY in the
\* environment, the agent is constructed
StartupFailsWithoutCredentials ==
    /\ (pc # "startup" /\ ~(AzurePairAvailable \/ OpenAiKeyAvailable)) =>
          agent = "failed"
    /\ agent = "failed" => pc = "import_failed"
    /\ pc = "classify" => agent \in {"azure", "openai"}
    /\ (pc # "startup"
          /\ (AzurePairAvailable \/ Truthy(environ["OPENAI_API_KEY"]))) =>
          agent \in {"azure", "openai"}

\* the OpenAI key is only in the vault, and construction failed
OpenAiKeyOnlyInVault ==
    /\ agent = "failed"
    /\ InVault("OpenAI-API-Key")
    /\ ~AzurePairAvailable

(***************************************************************************)
(* Field ownership in a run of process                                     *)
(***************************************************************************)
\* the fields of TicketState the caller supplies
InputFields ==
    {"ticket_id", "issue_key", "summary", "description", "issue_type", "priority",
     "reporter", "redaction_flags"}

\* the fields each stage owns
OwnedFields(node) ==
    CASE node = "classify" ->
             {"department", "team", "suggested_priority", "suggested_assignee",
              "classification_confidence"}
      [] node = "retrieve" -> {"retrieved_docs"}
      [] node = "generate" -> {"generated_comment"}
      [] node = "policy" -> {"policy_flags", "requires_human_review"}
      [] OTHER -> {}

\* the nodes that also add a message to the transcript
TranscriptOf(node) == IF node \in {"classify", "generate"} THEN {"messages"} ELSE {}

\* the updates the nodes of this run returned, from what the collaborators
\* gave them
ClassifyReturned == ClassifyUpdate(state, llmClassify)
RetrieveReturned == RetrieveUpdate(state, searchConfigured, searchBackend)
GenerateReturned == GenerateUpdate(state, llmGenerate)
PolicyReturned == PolicyUpdate(state, Seconds(clock))

\* the result carries the ticket_id and issue_key of the input
ResultKeepsIdentity ==
    pc = "returned" =>
        /\ result[1].ticket_id = state.ticket_id
        /\ result[1].issue_key = state.issue_key
        /\ result[1].issue_key = IssueKey(result[1].ticket_id)

\* C22 as claimed: the update of each stage that has run contains only the
\* TicketState fields that stage owns, and the returned result's ticket_id
\* and issue_key equal the input's.
C22_UpdatesHoldOnlyOwnedFields ==
    /\ pc # "classify" => DOMAIN ClassifyReturned \subseteq OwnedFields("classify")
    /\ pc \notin {"classify", "retrieve"} =>
          DOMAIN RetrieveReturned \subseteq OwnedFields("retrieve")
    /\ llmGenerate \in {"ok", "raise"} =>
          DOMAIN GenerateReturned \subseteq OwnedFields("generate")
    /\ pc \in {"done", "returned"} =>
          DOMAIN PolicyReturned \subseteq OwnedFields("policy")
    /\ ResultKeepsIdentity

\* the updates contain the fields the stage owns and, for classify and
\* generate, the transcript field messages
UpdatesHoldOwnedFieldsAndTranscript ==
    /\ pc # "classify" =>
          DOMAIN ClassifyReturned = OwnedFields("classify") \cup {"messages"}
    /\ pc \notin {"classify", "retrieve"} =>
          DOMAIN RetrieveReturned = OwnedFields("retrieve")
    /\ llmGenerate \in {"ok", "raise"} =>
          DOMAIN GenerateReturned = OwnedFields("generate") \cup {"messages"}
    /\ pc \in {"done", "returned"} =>
          DOMAIN PolicyReturned = OwnedFields("policy")

\* a step of the run changes only fields the stage at pc owns, or appends to
\* messages in classify and generate; what is in messages stays
StepChangesOnlyOwnedFields ==
    /\ \A f \in DOMAIN state :
          state'[f] # state[f] => f \in OwnedFields(pc) \cup TranscriptOf(pc)
    /\ DOMAIN state' = DOMAIN state
    /\ Len(state'.messages) >= Len(state.messages)
    /\ SubSeq(state'.messages, 1, Len(state.messages)) = state.messages

\* C22 amended: each stage's update contains exactly the fields it owns,
\* and the updates of Classify and Generate contain in addition the field
\* messages, to which the graph appends one message; so no step changes a
\* caller-supplied input field, no step changes a field owned by another
\* stage (a stage's fields stay as they are once it has completed), and the
\* result's ticket_id and issue_key equal the input's.
C22_FieldOwnership ==
    /\ [](UpdatesHoldOwnedFieldsAndTranscript /\ ResultKeepsIdentity)
    /\ [][StepChangesOnlyOwnedFields]_vars

C22_Witness ==
    /\ pc = "returned"
    /\ state.messages = << ClassifierMessage, GenerationError >>
    /\ state.suggested_priority # state.priority
    /\ result[1].ticket_id = "T2"
    /\ result[1].issue_key = "PROJ-2"

(***************************************************************************)
(* Retrieval scoping                                                       *)
(***************************************************************************)
\* the scoped query of this run was served and matched no document
ScopedQueryFoundNothing ==
    /\ searchConfigured
    /\ searchBackend = [kind |-> "ok", n |-> 0]
    /\ pc \notin {"classify", "retrieve"}

\* what the same query returns without the department/team filter: the best
\* documents of the whole index
UnscopedResults == Take(IndexDocs, TopK)

\* C23: when the query scoped to the department and team that Classify
\* produced is served and returns no results, the citations are taken from
\* the unscoped results for the same query.
C23_UnscopedFallback ==
    ScopedQueryFoundNothing =>
        state.retrieved_docs = FormatDocs(Take(UnscopedResults, MaxCitations))

\* what retrieve_node does in that case: it makes no second query and cites
\* two synthetic references named after the department
EmptyScopedResultGivesSyntheticReferences ==
    ScopedQueryFoundNothing =>
        state.retrieved_docs =
            << ClassifyReturned.department \o "-KB-001: General Support Guidelines",
               ClassifyReturned.department \o "-KB-002: Escalation Procedures" >>

(***************************************************************************)
(* Several runs of process in flight on the one agent                      *)
(***************************************************************************)
\* the ticket each caller submits: different callers, different tickets
TicketOf(c) == IF c = 1 THEN "T1" ELSE "T2"

PoolTickets(c) ==
    {t \in TicketInputs : t.ticket_id = TicketOf(c) /\ t.priority = "High"}

\* what the classifier may give a run: a failure, a full classification, a
\* classification with a confidence that is no number
PoolClassifierResponses ==
    {ClassifierFailure("raise"),
     [kind |-> "dict", department |-> "IT", team |-> "DBA",
      suggested_priority |-> "Critical",
      suggested_assignee |-> "dba-lead@company.com", confidence |-> Num(95)],
     [kind |-> "dict", department |-> "Legal", team |-> MISSING,
      suggested_priority |-> MISSING, suggested_assignee |-> MISSING,
      confidence |-> StrConf]}

PoolBackendOutcomes ==
    IF searchConfigured
    THEN {BackendError, [kind |-> "ok", n |-> 0], [kind |-> "ok", n |-> MaxResults]}
    ELSE {BackendNotCalled}

\* a run that graph.invoke has just been given initial_state for
NewRun(ticket_data) ==
    [ticket |-> ticket_data,
     state |-> InitialState(ticket_data),
     pc |-> "classify",
     llmClassify |-> ClassifierFailure("not_called"),
     searchBackend |-> BackendNotCalled,
     llmGenerate |-> "not_called",
     result |-> <<>>]

\* a TicketState kept on the agent object: every run works on the first
\* run's state
RunStateShared(rs, c) == rs[1].state

\* the TicketState a run's node is given: graph.invoke keeps the state of
\* each invocation apart
RunState(rs, c) == rs[c].state

PoolInit ==
    /\ NoRunYet
    /\ NoCallsYet
    /\ pc = "pool"
    /\ searchConfigured \in BOOLEAN
    /\ cosmosConfigured \in BOOLEAN
    /\ items = <<>>
    /\ clock = 0
    /\ environ = DevEnviron
    /\ vault = NoVault
    /\ agent = ConstructAgent(DevEnviron, NoVault)
    /\ request = NoRequest
    /\ response = NoRequest
    /\ runs \in {[c \in Callers |-> NewRun(tt[c])] :
                    tt \in [Callers -> TicketInputs] \cap
                           {f \in [Callers -> TicketInputs] :
                               \A c \in Callers : f[c] \in PoolTickets(c)}}

\* what a step of one run leaves alone
PoolFrame ==
    UNCHANGED << state, pc, executed, result, llmClassify, searchBackend, llmGenerate,
                 policyRaised, logStatus, logCalls, itemsBefore, searchConfigured,
                 cosmosConfigured, storeOpVars, firstCall, secondCall, startupVars,
                 handlerVars >>

\* classify_node of run c
PoolClassify(c) ==
    /\ runs[c].pc = "classify"
    /\ \E resp \in PoolClassifierResponses :
        runs' = [runs EXCEPT ![c].llmClassify = resp,
                             ![c].state = Merge(RunState(runs, c),
                                                ClassifyUpdate(RunState(runs, c), resp)),
                             ![c].pc = NextNode("classify")]
    /\ PoolFrame
    /\ UNCHANGED << items, clock, engineTables >>

\* retrieve_node of run c, on the shared search_manager
PoolRetrieve(c) ==
    /\ runs[c].pc = "retrieve"
    /\ \E backend \in PoolBackendOutcomes :
        runs' = [runs EXCEPT ![c].searchBackend = backend,
                             ![c].state = Merge(RunState(runs, c),
                                                RetrieveUpdate(RunState(runs, c),
                                                               searchConfigured, backend)),
                             ![c].pc = NextNode("retrieve")]
    /\ PoolFrame
    /\ UNCHANGED << items, clock, engineTables >>

\* generate_node of run c
PoolGenerate(c) ==
    /\ runs[c].pc = "generate"
    /\ LET st == RunState(runs, c)
       IN \E llm \in (IF GenerateRaises(st) THEN {"not_called"} ELSE {"ok", "raise"}) :
            runs' = [runs EXCEPT ![c].llmGenerate = llm,
                                 ![c].state = IF GenerateRaises(st) THEN st
                                              ELSE Merge(st, GenerateUpdate(st, llm)),
                                 ![c].pc = AfterGenerate(GenerateRaises(st))]
    /\ PoolFrame
    /\ UNCHANGED << items, clock, engineTables >>

\* policy_node of run c, on the shared policy_engine
PoolPolicy(c) ==
    /\ runs[c].pc = "policy"
    /\ runs' = [runs EXCEPT ![c].state = Merge(RunState(runs, c),
                                               PolicyUpdate(RunState(runs, c),
                                                            Seconds(clock))),
                            ![c].pc = NextNode("policy")]
    /\ engineTables' = TablesAfterEvaluate(engineTables)
    /\ PoolFrame
    /\ UNCHANGED << items, clock >>

\* process of run c from the end of the graph, on the shared decision_logger
PoolFinish(c) ==
    /\ runs[c].pc = "done"
    /\ \E now \in clock..MaxClock, service \in ServiceOutcomes :
        LET res == ProcessResult(RunState(runs, c))
            log == LogDecision(cosmosConfigured, items, res.ticket_id,
                               res.issue_key, res, now, service)
        IN /\ clock' = now
           /\ items' = log.items
           /\ runs' = [runs EXCEPT ![c].pc = AfterLog(log.raised),
                                   ![c].result = IF AfterLog(log.raised) = "returned"
                                                 THEN <<res>> ELSE <<>>]
    /\ PoolFrame
    /\ UNCHANGED engineTables

PoolNext ==
    \E c \in Callers :
        \/ PoolClassify(c)
        \/ PoolRetrieve(c)
        \/ PoolGenerate(c)
        \/ PoolPolicy(c)
        \/ PoolFinish(c)

PoolSpec == PoolInit /\ [][PoolNext]_vars

(***************************************************************************)
(* Properties of runs in flight together                                   *)
(***************************************************************************)
\* the states a run goes through when it is the only run: the updates of
\* the nodes applied one after the other to the initial state of its ticket,
\* with the responses the collaborators gave this run
SoloClassified(r) ==
    Merge(InitialState(r.ticket), ClassifyUpdate(InitialState(r.ticket), r.llmClassify))

SoloRetrieved(r) ==
    Merge(SoloClassified(r),
          RetrieveUpdate(SoloClassified(r), searchConfigured, r.searchBackend))

SoloGenerated(r) ==
    IF GenerateRaises(SoloRetrieved(r)) THEN SoloRetrieved(r)
    ELSE Merge(SoloRetrieved(r), GenerateUpdate(SoloRetrieved(r), r.llmGenerate))

SoloEvaluated(r) == Merge(SoloGenerated(r), PolicyUpdate(SoloGenerated(r), 0))

SoloState(r) ==
    CASE r.pc = "classify" -> InitialState(r.ticket)
      [] r.pc = "retrieve" -> SoloClassified(r)
      [] r.pc = "generate" -> SoloRetrieved(r)
      [] r.pc \in {"policy", "aborted"} -> SoloGenerated(r)
      [] OTHER -> SoloEvaluated(r)

\* C24: with the steps of several runs for different tickets interleaved in
\* any order on the shared policy engine, search manager and decision
\* logger, the TicketState of each run is at every point the state the run
\* has at that point when it runs alone with the same ticket and collaborator
\* responses; a run returns exactly the result it returns alone, and aborts
\* only where it aborts alone.
C24_RunIndependence ==
    \A c \in DOMAIN runs :
        /\ runs[c].state = SoloState(runs[c])
        /\ runs[c].state.ticket_id = TicketOf(c)
        /\ runs[c].pc = "returned" =>
              runs[c].result = << ProcessResult(SoloEvaluated(runs[c])) >>
        /\ runs[c].pc = "aborted" => GenerateRaises(SoloRetrieved(runs[c]))
        /\ runs[c].pc \in {"policy", "done", "returned"} =>
              ~GenerateRaises(SoloRetrieved(runs[c]))

\* run 1 has returned and stored its record while run 2, classified
\* differently, is still before its policy node
C24_Witness ==
    /\ runs # NoRuns
    /\ runs[1].pc = "returned"
    /\ runs[2].pc = "policy"
    /\ runs[1].llmClassify.kind = "dict"
    /\ runs[2].llmClassify.kind = "raise"
    /\ runs[1].result[1].classification.department = "IT"
    /\ runs[2].state.department = "General"
    /\ Len(items) = 1
    /\ items[1].ticket_id = "T1"
    /\ clock > 0

(***************************************************************************)
(* Properties of query_decisions                                           *)
(***************************************************************************)
\* the stored records that satisfy the filters of the last query
MatchingLastQuery ==
    {i \in 1..Len(items) :
        DecisionFilter(items[i], lastQuery.department, lastQuery.start_date,
                       lastQuery.end_date)}

\* the records of the last query are stored records that satisfy every
\* supplied filter, newest first
LastQueryFilteredNewestFirst ==
    /\ \A k \in 1..Len(lastQuery.found) :
          \E i \in MatchingLastQuery : lastQuery.found[k] = items[i]
    /\ \A a, b \in 1..Len(lastQuery.found) :
          a < b => IsoLeq(lastQuery.found[b].timestamp, lastQuery.found[a].timestamp)

\* C25: query_decisions returns only stored records that satisfy every
\* supplied filter, ordered newest-first by timestamp, and never more than
\* max_items records; an omitted filter excludes nothing (a served query
\* whose matches fit within max_items returns all of them).
C25_QueryFilteredOrderedBounded ==
    lastQuery.status # "none" =>
        /\ LastQueryFilteredNewestFirst
        /\ Len(lastQuery.found) <= lastQuery.max_items
        /\ (lastQuery.status = "ok"
              /\ Cardinality(MatchingLastQuery) <= lastQuery.max_items) =>
              \A i \in MatchingLastQuery :
                  \E k \in 1..Len(lastQuery.found) : lastQuery.found[k] = items[i]

\* what query_decisions does keep: filtered, newest first, and a served query
\* returns every match, whatever max_items is
QueryReturnsEveryMatchNewestFirst ==
    lastQuery.status # "none" =>
        /\ LastQueryFilteredNewestFirst
        /\ lastQuery.status = "ok" =>
              /\ Len(lastQuery.found) = Cardinality(MatchingLastQuery)
              /\ \A i \in MatchingLastQuery :
                    \E k \in 1..Len(lastQuery.found) : lastQuery.found[k] = items[i]
        /\ lastQuery.status # "ok" => lastQuery.found = <<>>

\* a query with max_items = 1 returned two records
QueryExceededMaxItems ==
    /\ lastQuery.status = "ok"
    /\ lastQuery.max_items = 1
    /\ Len(lastQuery.found) = 2

(***************************************************************************)
(* Retention of the stored records                                         *)
(***************************************************************************)
\* C26: every record log_decision has built or written carries the field
\* ttl with the value 2555 x 24 x 60 x 60 seconds (2555 days), set when the
\* record is built for its create_item call; the store never holds a record
\* with another ttl or without one.
C26_RetentionTtl ==
    /\ \A i \in 1..Len(items) :
          /\ "ttl" \in DOMAIN items[i]
          /\ items[i].ttl = 2555 * 24 * 60 * 60
          /\ items[i].ttl = 220752000
    /\ \A c \in Callers :
          pending[c] # NoRecord => pending[c][1].ttl = 2555 * 24 * 60 * 60

C26_Witness ==
    /\ lastLog.status = "created"
    /\ Len(items) = 2
    /\ items[1].timestamp # items[2].timestamp
    /\ items[2].ttl = 220752000

(***************************************************************************)
(* Range of the classification confidence                                  *)
(***************************************************************************)
\* a number in the closed interval [0, 1]
InUnitInterval(c) == c.kind = "num" /\ 0 <= c.v /\ c.v <= 100

\* C27: in every reachable TicketState and in every returned result the
\* classification confidence is a number in [0, 1], whatever the classifier
\* returned.
C27_ConfidenceInUnitInterval ==
    /\ InUnitInterval(state.classification_confidence)
    /\ pc = "returned" =>
          /\ InUnitInterval(result[1].confidence)
          /\ InUnitInterval(result[1].classification.confidence)

\* what classify_node does with the confidence: a failed call gives 0.0, an
\* absent key 0.5, and any value the classifier sent is stored as it is
ConfidenceIsStoredAsReceived ==
    pc # "classify" =>
        state.classification_confidence =
            IF llmClassify.kind # "dict" THEN Num(0)
            ELSE IF llmClassify.confidence = MissingConf THEN Num(50)
                 ELSE llmClassify.confidence

\* a run returned a result whose confidence is 1.5
ReturnedOutOfRangeConfidence ==
    /\ pc = "returned"
    /\ result[1].confidence = Num(150)
    /\ ~result[1].requires_human_review

(***************************************************************************)
(* Comment and citations of a completed run                                *)
(***************************************************************************)
\* the two references retrieve_node makes up for a department
SyntheticReferences(department) ==
    << department \o "-KB-001: General Support Guidelines",
       department \o "-KB-002: Escalation Procedures" >>

\* the documents the retriever returned to this run without erroring: those
\* of the index when the backend served the query, those of the mock
\* knowledge base when no backend is configured
RetrieverReturned ==
    IF searchConfigured
    THEN Take(Take(IndexDocs, searchBackend.n), TopK)
    ELSE MockSearch(state.department, state.team, TopK).results

\* the retriever of this run errored: the backend call failed, or the mock
\* search raised
RetrieverErrored ==
    \/ searchConfigured /\ searchBackend.kind = "error"
    \/ ~searchConfigured /\ MockSearch(state.department, state.team, TopK).raised

\* the citation list has between 1 and 3 entries
CitationCountInRange ==
    pc \notin {"classify", "retrieve"} =>
        Len(state.retrieved_docs) \in 1..MaxCitations

\* a returned result has a comment (the generator's text or the template)
\* and the citations of the state
ResultHasCommentAndCitations ==
    pc = "returned" =>
        /\ result[1].generated_comment \in {LlmComment, TemplateComment(state)}
        /\ result[1].citations = state.retrieved_docs
        /\ result[1].citations # <<>>

\* C28: every completed run returns a non-null generated_comment and a
\* non-empty citation list; after Retrieve the citation list has between 1
\* and 3 entries: the first up-to-three retriever results in retriever order
\* formatted as "id: title", or the two synthetic department references when
\* the retriever returned nothing, or the single fallback reference when it
\* errored.
C28_CommentAndCitations ==
    /\ ResultHasCommentAndCitations
    /\ CitationCountInRange
    /\ pc \notin {"classify", "retrieve"} =>
          state.retrieved_docs =
              IF RetrieverErrored THEN << FallbackCitation(state.department) >>
              ELSE IF RetrieverReturned # NoDocs
                   THEN FormatDocs(Take(RetrieverReturned, MaxCitations))
                   ELSE SyntheticReferences(state.department)

\* the retriever's backend errored and the citations are not the single
\* fallback reference
BackendErrorCitedWithoutFallback ==
    /\ pc = "returned"
    /\ searchBackend.kind = "error"
    /\ result[1].citations # << FallbackCitation(state.department) >>
    /\ Len(result[1].citations) \in {1, 2}

(***************************************************************************)
(* Degraded classification                                                 *)
(***************************************************************************)
\* the Classify stage of this run fell back: the classifier call raised or
\* its content was no JSON object
ClassifyFellBack == llmClassify.kind \in {"raise", "bad_json", "not_dict"}

\* C29: in every run where Classify fell back, whatever Retrieve and Generate
\* did, the run is not aborted and its result has confidence 0.0 and
\* requires_human_review = TRUE, with low_confidence_classification among
\* the policy flags (or policy_evaluation_error if the Policy stage failed).
C29_DegradedClassificationIsReviewed ==
    ClassifyFellBack =>
        /\ pc # "aborted"
        /\ state.classification_confidence = Num(0)
        /\ pc \in {"done", "returned"} => state.requires_human_review
        /\ pc = "returned" =>
              /\ result[1].confidence = Num(0)
              /\ result[1].classification.confidence = Num(0)
              /\ result[1].requires_human_review = TRUE
              /\ IF policyRaised
                 THEN SeqContains(result[1].policy_flags, "policy_evaluation_error")
                 ELSE SeqContains(result[1].policy_flags,
                                  "low_confidence_classification")

C29_Witness ==
    /\ llmClassify.kind = "raise"
    /\ searchBackend.kind = "error"
    /\ llmGenerate = "raise"
    /\ pc = "returned"
    /\ logStatus = "http_error"
    /\ result[1].policy_flags = <<"low_confidence_classification">>
    /\ result[1].requires_human_review

(***************************************************************************)
(* The /process_ticket request handler (main.py)                           *)
(***************************************************************************)
\* the summaries of the requests, and the keywords of classify_ticket that
\* occur in the lower-cased summary or description (word in summary_lower)
RequestSummaries ==
    {"Database connection timeout", "New hire onboarding", "Printer is broken"}

KeywordsIn(summary) ==
    CASE summary = "Database connection timeout" ->
             {"database", "timeout", "connection"}
      [] summary = "New hire onboarding" -> {"onboard", "hire"}
      [] OTHER -> {}

\* classify_ticket of main.py
HandlerClassify(summary) ==
    IF KeywordsIn(summary) \cap {"database", "db", "sql", "timeout", "connection"} # {}
    THEN [department |-> "IT", team |-> "DBA", suggested_priority |-> "High",
          suggested_assignee |-> "dba-lead@company.com", confidence |-> Num(92)]
    ELSE IF KeywordsIn(summary) \cap {"onboard", "hire", "employee", "contractor"} # {}
         THEN [department |-> "HR", team |-> "Onboarding",
               suggested_priority |-> "Medium",
               suggested_assignee |-> "hr-onboarding@company.com",
               confidence |-> Num(85)]
         ELSE [department |-> "General", team |-> "Support",
               suggested_priority |-> "Medium", suggested_assignee |-> MISSING,
               confidence |-> Num(65)]

\* retrieve_knowledge of main.py
HandlerRetrieve(classification) ==
    CASE classification.department = "IT" ->
             <<"Confluence:KB-887", "Confluence:NetACLs-Staging">>
      [] classification.department = "HR" ->
             <<"HR-Policy:Contractor-Onboarding-Checklist">>
      [] OTHER -> <<"GeneralKB:Support-Guidelines">>

\* generate_response of main.py
HandlerGenerate(classification, citations) ==
    CASE classification.department = "IT" ->
             "This appears to be a database connectivity issue. Please verify your network access per "
                 \o citations[1] \o ". Assigning to DBA team."
      [] classification.department = "HR" ->
             "This is an onboarding request. Please review the contractor onboarding checklist ("
                 \o citations[1] \o ") and ensure all compliance requirements are met."
      [] OTHER -> "This ticket has been received and will be reviewed by the support team."

\* the redaction flags check_policy treats as high-sensitivity PII
HandlerHighSensitivityFlags == {"ssn_detected", "credit_card_detected"}

\* check_policy of main.py
CheckPolicy(redaction_flags) ==
    (IF "external_email" \in redaction_flags
     THEN <<"external_contact_detected">> ELSE <<>>)
    \o (IF redaction_flags \cap HandlerHighSensitivityFlags # {}
        THEN <<"high_sensitivity_pii">> ELSE <<>>)

\* process_ticket of main.py: the EnrichedTicketResult it returns, without
\* latency_ms (the wall-clock time the handler took)
ProcessTicket(ticket) ==
    LET classification == HandlerClassify(ticket.summary)
        retrieved_docs == HandlerRetrieve(classification)
        policy_flags == CheckPolicy(ticket.redaction_flags)
    IN [ticket_id |-> ticket.ticket_id,
        issue_key |-> ticket.issue_key,
        classification |-> classification,
        generated_comment |-> HandlerGenerate(classification, retrieved_docs),
        citations |-> retrieved_docs,
        policy_flags |-> policy_flags,
        confidence |-> classification.confidence,
        model_used |-> "mock-classifier-v1",
        requires_human_review |->
            \/ classification.confidence.v < 70
            \/ Len(policy_flags) > 0
            \/ "external_email" \in ticket.redaction_flags]

\* the redaction flags a request may carry: those the DLP stage emits and
\* those the handler knows
RequestFlags ==
    {"us_ssn_detected", "credit_card_detected", "crypto_detected",
     "us_passport_detected", "ssn_detected", "external_email",
     "email_address_detected"}

\* the SanitizedTickets the handler is called with
TicketRequests ==
    [ticket_id : TicketIds, issue_key : {"PROJ-1"}, summary : RequestSummaries,
     reporter : {InternalReporter}, redaction_flags : SUBSET RequestFlags]

HandlerInit ==
    /\ NoRunYet
    /\ NoCallsYet
    /\ pc = "serving"
    /\ searchConfigured = FALSE
    /\ cosmosConfigured = FALSE
    /\ items = <<>>
    /\ clock = 0
    /\ environ = DevEnviron
    /\ vault = NoVault
    /\ agent = ConstructAgent(DevEnviron, NoVault)
    /\ request = NoRequest
    /\ response = NoRequest
    /\ runs = NoRuns

\* POST /process_ticket
PostProcessTicket ==
    /\ \E ticket \in TicketRequests :
        /\ request' = ticket
        /\ response' = ProcessTicket(ticket)
    /\ UNCHANGED << runVars, cosmosConfigured, items, clock, storeOpVars, engineVars,
                    startupVars, runs >>

HandlerNext == PostProcessTicket

HandlerSpec == HandlerInit /\ [][HandlerNext]_vars

(***************************************************************************)
(* The handler against the policy engine                                   *)
(***************************************************************************)
\* what evaluate_ticket decides for the request's redaction flags and the
\* handler's classification
EngineDecision ==
    EvaluateTicket(request.reporter, request.redaction_flags,
                   response.classification.department,
                   response.classification.suggested_priority,
                   response.classification.confidence, <<>>, 0)

\* C30: for every request whose redaction_flags contains us_ssn_detected,
\* credit_card_detected, crypto_detected or us_passport_detected, the
\* handler's result has requires_human_review = TRUE and policy_flags
\* containing high_sensitivity_pii, as evaluate_ticket decides for the same
\* redaction_flags.
C30_HandlerAgreesOnHighSensitivityPii ==
    (request # NoRequest /\ request.redaction_flags \cap HighRiskPii # {}) =>
        /\ response.requires_human_review = TRUE
        /\ SeqContains(response.policy_flags, "high_sensitivity_pii")
        /\ response.requires_human_review = EngineDecision.requires_human_review
        /\ SeqContains(EngineDecision.policy_flags, "high_sensitivity_pii")

\* the engine flags every such request; the handler flags it when the flag
\* is credit_card_detected (or its own ssn_detected)
EngineFlagsWhatHandlerMayMiss ==
    request # NoRequest =>
        /\ request.redaction_flags \cap HighRiskPii # {} =>
              /\ EngineDecision.requires_human_review
              /\ SeqContains(EngineDecision.policy_flags, "high_sensitivity_pii")
        /\ SeqContains(response.policy_flags, "high_sensitivity_pii") <=>
              request.redaction_flags \cap {"ssn_detected", "credit_card_detected"} # {}

\* a request flagged us_ssn_detected that the handler passed without review
HandlerMissedSsn ==
    /\ request # NoRequest
    /\ request.redaction_flags = {"us_ssn_detected"}
    /\ response.policy_flags = <<>>
    /\ ~response.requires_human_review
    /\ EngineDecision.requires_human_review

====
